---------------------------- MODULE Spec2Model ----------------------------
(***************************************************************************)
(* Fisheries-management backend: order ingestion (POST /orders ->          *)
(* DatabaseService.createOrder), the weather synchronization job, the      *)
(* price prediction job and the scheduler / process handlers of index.ts.  *)
(***************************************************************************)
EXTENDS Integers, Sequences, FiniteSets, TLC

(***************************************************************************)
(* JavaScript numbers.                                                     *)
(*                                                                         *)
(* A JS number is a binary floating-point value: a significand of a fixed  *)
(* number of bits and round-to-nearest-even after every operation.  In the *)
(* program the significand has 53 bits; TLC's integers have 32, so the     *)
(* width is the definition MantBits and the model runs with a narrower     *)
(* significand.  The request values used below are chosen so that every    *)
(* integer-valued intermediate is exact at this width, as it is at 53.     *)
(*                                                                         *)
(* A float is [m, e] with value m * 2^e, m odd (or m = 0, e = 0).          *)
(* A decimal (a JSON literal, or a Decimal of the persistence layer) is    *)
(* [n, k] with value n / 10^k, n not divisible by 10 unless k = 0.         *)
(***************************************************************************)
MantBits == 13
MaxFracDigits == 5

RECURSIVE Pow2(_)
Pow2(n) == IF n <= 0 THEN 1 ELSE 2 * Pow2(n - 1)

RECURSIVE Pow10(_)
Pow10(n) == IF n <= 0 THEN 1 ELSE 10 * Pow10(n - 1)

Abs(x) == IF x < 0 THEN -x ELSE x
Sgn(x) == IF x < 0 THEN -1 ELSE 1

RECURSIVE BitLen(_)
BitLen(n) == IF n <= 0 THEN 0 ELSE 1 + BitLen(n \div 2)

FZero == [m |-> 0, e |-> 0]

RECURSIVE FNorm(_, _)
FNorm(m, e) ==
    IF m = 0 THEN FZero
    ELSE IF m % 2 = 0 THEN FNorm(m \div 2, e + 1)
    ELSE [m |-> m, e |-> e]

\* Round the non-negative value (m + sticky) * 2^e, 0 <= sticky < 1, to
\* MantBits significant bits, ties to even.
FRoundInt(m, e, sticky) ==
    LET s == BitLen(m) - MantBits IN
    IF s <= 0 THEN FNorm(m, e)
    ELSE LET q    == m \div Pow2(s)
             lo   == m % Pow2(s)
             half == Pow2(s - 1)
             up   == \/ lo > half
                     \/ lo = half /\ sticky
                     \/ lo = half /\ ~sticky /\ q % 2 = 1
         IN  FNorm(IF up THEN q + 1 ELSE q, e + s)

RECURSIVE ScaleUp(_, _, _)
ScaleUp(num, den, s) ==
    IF num * Pow2(s) >= den * Pow2(MantBits - 1) THEN s
    ELSE ScaleUp(num, den, s + 1)

\* The float nearest to the non-negative rational num / den.
FRoundRat(num, den) ==
    IF num = 0 THEN FZero
    ELSE IF num \div den >= Pow2(MantBits - 1)
    THEN FRoundInt(num \div den, 0, num % den # 0)
    ELSE LET s == ScaleUp(num, den, 0)
             q == (num * Pow2(s)) \div den
             r == (num * Pow2(s)) % den
             up == 2 * r > den \/ (2 * r = den /\ q % 2 = 1)
         IN  FNorm(IF up THEN q + 1 ELSE q, -s)

FNeg(a) == [m |-> -a.m, e |-> a.e]

\* JSON.parse of a number literal n / 10^k.
ParseNum(d) ==
    LET f == FRoundRat(Abs(d.n), Pow10(d.k))
    IN  IF d.n < 0 THEN FNeg(f) ELSE f

\* a * b, rounded.
FMul(a, b) ==
    LET f == FRoundInt(Abs(a.m) * Abs(b.m), a.e + b.e, FALSE)
    IN  IF Sgn(a.m) * Sgn(b.m) < 0 THEN FNeg(f) ELSE f

\* a + b, rounded.
FAdd(a, b) ==
    LET e == IF a.e < b.e THEN a.e ELSE b.e
        m == a.m * Pow2(a.e - e) + b.m * Pow2(b.e - e)
        f == FRoundInt(Abs(m), e, FALSE)
    IN  IF m < 0 THEN FNeg(f) ELSE f

\* a <= b and a < b on floats.
FLe(a, b) ==
    LET e == IF a.e < b.e THEN a.e ELSE b.e
    IN  a.m * Pow2(a.e - e) <= b.m * Pow2(b.e - e)
FLt(a, b) == FLe(a, b) /\ a # b

FInt(i) == FRoundInt(Abs(i), 0, FALSE)
FIsInteger(a) == a.e >= 0
FToInt(a) == a.m * Pow2(a.e)

RECURSIVE DNorm(_, _)
DNorm(n, k) ==
    IF n = 0 THEN [n |-> 0, k |-> 0]
    ELSE IF k > 0 /\ n % 10 = 0 THEN DNorm(n \div 10, k - 1)
    ELSE [n |-> n, k |-> k]

DInt(i) == [n |-> i, k |-> 0]
DAdd(a, b) ==
    LET k == IF a.k > b.k THEN a.k ELSE b.k
    IN  DNorm(a.n * Pow10(k - a.k) + b.n * Pow10(k - b.k), k)
DMul(a, b) == DNorm(a.n * b.n, a.k + b.k)

\* The integer nearest to |a| * 10^k.
ScaledDigits(a, k) ==
    IF a.e >= 0 THEN Abs(a.m) * Pow2(a.e) * Pow10(k)
    ELSE LET num == Abs(a.m) * Pow10(k)
             den == Pow2(-a.e)
         IN  IF 2 * (num % den) >= den THEN num \div den + 1 ELSE num \div den

\* new Decimal(x) for a JS number x: decimal.js reads the number through its
\* string form, the shortest decimal that parses back to the same number.
RECURSIVE ShortestDecimal(_, _)
ShortestDecimal(a, k) ==
    LET n == ScaledDigits(a, k) IN
    IF ParseNum([n |-> n, k |-> k]) = [m |-> Abs(a.m), e |-> a.e] \/ k >= MaxFracDigits
    THEN DNorm(Sgn(a.m) * n, k)
    ELSE ShortestDecimal(a, k + 1)

ToDecimal(a) == ShortestDecimal(a, 0)

(***************************************************************************)
(* POST /orders: validateBody(createOrderSchema), OrderController          *)
(* .createOrder, DatabaseService.createOrder.                              *)
(***************************************************************************)
MaxClock == 1
MaxRequests == 1

\* createOrderSchema limits (utils/validation.ts)
MinFreshness == 1
MaxFreshness == 168
DefaultFreshness == 24
MinLat == -90
MaxLat == 90
MinLng == -180
MaxLng == 180
MinAddress == 10
MaxAddress == 500
MinItems == 1
MaxItems == 10
MaxQuantityKg == 1000
MaxInstructions == 500

\* An optional key the body does not carry: a literal, a number, a string.
AbsentLit == [n |-> 0, k |-> -1]
AbsentNum == [m |-> 0, e |-> -1]
AbsentStr == -1
Dec(n, k) == [n |-> n, k |-> k]
Item(f, q, p) == [fishTypeId |-> f, quantityKg |-> q, unitPrice |-> p]

\* Rows of the reference tables the order's foreign keys point to.
Users == {1}
FishTypeIds == {1, 2, 3}

VARIABLES
    clock,          \* Date.now(), in days
    pc,             \* where the request in flight is
    reqBody,        \* req.body as received
    body,           \* req.body after validateBody (value with defaults)
    totalAmount,    \* createOrder's local totalAmount (a JS number)
    tx,             \* rows written inside the open transaction
    orders, orderItems, statusHistory,   \* committed rows
    ids,            \* the autoincrement sequences
    response,       \* the response sent for the request
    pre,            \* the committed rows when the request arrived
    createCalls,    \* calls of DatabaseService.createOrder for this request
    lastError,      \* what the controller's logger.error last recorded
    served          \* requests received so far

orderVars == <<clock, pc, reqBody, body, totalAmount, tx, orders, orderItems,
               statusHistory, ids, response, pre, createCalls, lastError, served>>

(***************************************************************************)
(* State of the two synchronization jobs.                                  *)
(***************************************************************************)
VARIABLES
    scenario,       \* which job runs, and whether its runs may overlap
    runsStarted,    \* runs of a job started so far
    wx,             \* per trigger: the weather run it started
    forecasts,      \* WeatherForecast rows
    wxLog,          \* per weather run: what it wrote, and the row count it left
    pred,           \* per trigger: the prediction run it started
    predictions,    \* DailyPricePrediction rows
    predLog         \* per prediction run: what it wrote

syncVars == <<scenario, runsStarted, wx, forecasts, wxLog, pred, predictions, predLog>>

VARIABLES
    proc,           \* the Node process: alive, exit code, last log entry, server, cron tasks
    hour,           \* wall-clock hour of the day
    active,         \* per cron job: callbacks started and not yet settled
    lastStep        \* the step taken last, for the properties

schedVars == <<proc, hour, active, lastStep>>

(***************************************************************************)
(* State of the settings routes.                                           *)
(***************************************************************************)
VARIABLES
    userSettings,   \* the Map of the settings router: per user, what was set
    settingsReq,    \* the settings request served last
    settingsRes,    \* the response sent for it
    settingsPre,    \* userSettings when it arrived
    settingsServed  \* settings requests served so far

settingsVars == <<userSettings, settingsReq, settingsRes, settingsPre, settingsServed>>

(***************************************************************************)
(* State of the seed script (prisma/seed.ts).                              *)
(***************************************************************************)
VARIABLES
    idMappings,     \* per model name: source id -> integer (0: no entry)
    seedAt,         \* how many files of SEEDING_ORDER have been processed
    seeded          \* per model name: the file's items and what was made of them

seedVars == <<idMappings, seedAt, seeded>>

vars == <<orderVars, syncVars, schedVars, settingsVars, seedVars>>

NoBody == [absent |-> TRUE]
NoTx == [order |-> <<>>, items |-> <<>>, history |-> <<>>]
NoData == [order |-> <<>>, items |-> <<>>]
Reply(status, message, errors, data) ==
    [status |-> status, message |-> message, errors |-> errors, data |-> data]
NoResponse == Reply(0, "", <<>>, NoData)
Store == [orders |-> orders, orderItems |-> orderItems, statusHistory |-> statusHistory]

\* express.json(): every number literal of the body becomes a JS number.
JsonParse(b) ==
    [userId |-> ParseNum(b.userId),
     deliveryDate |-> b.deliveryDate,
     freshnessRequirementHours |->
        IF b.freshnessRequirementHours = AbsentLit THEN AbsentNum
        ELSE ParseNum(b.freshnessRequirementHours),
     deliveryLatitude |-> ParseNum(b.deliveryLatitude),
     deliveryLongitude |-> ParseNum(b.deliveryLongitude),
     deliveryAddress |-> b.deliveryAddress,
     orderItems |-> [i \in 1..Len(b.orderItems) |->
                        Item(ParseNum(b.orderItems[i].fishTypeId),
                             ParseNum(b.orderItems[i].quantityKg),
                             ParseNum(b.orderItems[i].unitPrice))],
     specialInstructions |-> b.specialInstructions]

\* ---- createOrderSchema -------------------------------------------------
Err(field, index, rule) == [field |-> field, index |-> index, rule |-> rule]
Chk(ok, field, index, rule) == IF ok THEN <<>> ELSE <<Err(field, index, rule)>>

FSigned(i) == IF i < 0 THEN FNeg(FInt(i)) ELSE FInt(i)
NumPositive(x) == FLt(FZero, x)
NumMin(x, lo) == FLe(FSigned(lo), x)
NumMax(x, hi) == FLe(x, FSigned(hi))

\* Mutation of ItemErrors: the max(1000) rule of quantityKg is missing.
ItemErrorsNoMax(it, i) ==
       Chk(FIsInteger(it.fishTypeId), "orderItems.fishTypeId", i, "integer")
    \o Chk(NumPositive(it.fishTypeId), "orderItems.fishTypeId", i, "positive")
    \o Chk(NumPositive(it.quantityKg), "orderItems.quantityKg", i, "positive")
    \o Chk(NumPositive(it.unitPrice), "orderItems.unitPrice", i, "positive")

ItemErrors(it, i) ==
       Chk(FIsInteger(it.fishTypeId), "orderItems.fishTypeId", i, "integer")
    \o Chk(NumPositive(it.fishTypeId), "orderItems.fishTypeId", i, "positive")
    \o Chk(NumPositive(it.quantityKg), "orderItems.quantityKg", i, "positive")
    \o Chk(NumMax(it.quantityKg, MaxQuantityKg), "orderItems.quantityKg", i, "max")
    \o Chk(NumPositive(it.unitPrice), "orderItems.unitPrice", i, "positive")

RECURSIVE ItemsErrors(_, _)
ItemsErrors(items, i) ==
    IF i > Len(items) THEN <<>>
    ELSE ItemErrors(items[i], i) \o ItemsErrors(items, i + 1)

\* Every violation of createOrderSchema by the body b at time now, in the
\* order of the schema's keys.
SchemaErrors(b, now) ==
       Chk(FIsInteger(b.userId), "userId", 0, "integer")
    \o Chk(NumPositive(b.userId), "userId", 0, "positive")
    \o Chk(b.deliveryDate >= now, "deliveryDate", 0, "min")
    \o (IF b.freshnessRequirementHours = AbsentNum THEN <<>>
        ELSE    Chk(FIsInteger(b.freshnessRequirementHours),
                    "freshnessRequirementHours", 0, "integer")
             \o Chk(NumMin(b.freshnessRequirementHours, MinFreshness),
                    "freshnessRequirementHours", 0, "min")
             \o Chk(NumMax(b.freshnessRequirementHours, MaxFreshness),
                    "freshnessRequirementHours", 0, "max"))
    \o Chk(NumMin(b.deliveryLatitude, MinLat), "deliveryLatitude", 0, "min")
    \o Chk(NumMax(b.deliveryLatitude, MaxLat), "deliveryLatitude", 0, "max")
    \o Chk(NumMin(b.deliveryLongitude, MinLng), "deliveryLongitude", 0, "min")
    \o Chk(NumMax(b.deliveryLongitude, MaxLng), "deliveryLongitude", 0, "max")
    \o Chk(b.deliveryAddress >= MinAddress, "deliveryAddress", 0, "min")
    \o Chk(b.deliveryAddress <= MaxAddress, "deliveryAddress", 0, "max")
    \o ItemsErrors(b.orderItems, 1)
    \o Chk(Len(b.orderItems) >= MinItems, "orderItems", 0, "min")
    \o Chk(Len(b.orderItems) <= MaxItems, "orderItems", 0, "max")
    \o (IF b.specialInstructions = AbsentStr THEN <<>>
        ELSE Chk(b.specialInstructions <= MaxInstructions,
                 "specialInstructions", 0, "max"))

\* Mutation of ReportAll: abortEarly left at Joi's default.
ReportFirstOnly(errs) == <<Head(errs)>>

\* schema.validate(.., { abortEarly: false }): error.details holds every violation.
ReportAll(errs) == errs

\* schema.validate(..) with Joi's default abortEarly: error.details holds the
\* first violation.
AbortEarly(errs) == <<Head(errs)>>

\* The value Joi returns for a body that passed: the default of
\* freshnessRequirementHours filled in.
SchemaValue(b) ==
    [b EXCEPT !.freshnessRequirementHours =
        IF @ = AbsentNum THEN FInt(DefaultFreshness) ELSE @]

\* ---- the requests the model sends --------------------------------------
\* A string is modelled by its length: the schema only measures it and the
\* service only stores it.
BaseRequest ==
    [userId |-> Dec(1, 0),
     deliveryDate |-> 1,
     freshnessRequirementHours |-> AbsentLit,
     deliveryLatitude |-> Dec(69, 1),
     deliveryLongitude |-> Dec(798, 1),
     deliveryAddress |-> MinAddress,
     orderItems |-> <<Item(Dec(1, 0), Dec(2, 0), Dec(500, 0)),
                      Item(Dec(2, 0), Dec(1, 0), Dec(1200, 0))>>,
     specialInstructions |-> AbsentStr]

UnitItem == Item(Dec(1, 0), Dec(1, 0), Dec(1, 0))

ItemLists ==
    { <<Item(Dec(1, 0), Dec(1, 1), Dec(1, 0)), Item(Dec(2, 0), Dec(2, 1), Dec(1, 0))>>,
      <<Item(Dec(1, 0), Dec(1, 1), Dec(3, 0))>>,
      <<Item(Dec(1, 0), Dec(MaxQuantityKg, 0), Dec(2, 0))>>,
      [i \in 1..MaxItems |-> UnitItem],
      <<Item(Dec(9, 0), Dec(1, 0), Dec(1, 0))>>,
      <<UnitItem, Item(Dec(9, 0), Dec(1, 0), Dec(1, 0))>>,
      \* outside the schema
      <<>>,
      [i \in 1..(MaxItems + 1) |-> UnitItem],
      <<Item(Dec(0, 0), Dec(1, 0), Dec(1, 0))>>,
      <<Item(Dec(15, 1), Dec(1, 0), Dec(1, 0))>>,
      <<Item(Dec(1, 0), Dec(0, 0), Dec(1, 0))>>,
      <<Item(Dec(1, 0), Dec(10 * MaxQuantityKg + 1, 1), Dec(1, 0))>>,
      <<Item(Dec(1, 0), Dec(1, 0), Dec(0, 0))>>,
      <<UnitItem, Item(Dec(1, 0), Dec(1, 0), Dec(-5, 0))>> }

Requests ==
    {BaseRequest}
    \cup {[BaseRequest EXCEPT !.orderItems = l] : l \in ItemLists}
    \cup {[BaseRequest EXCEPT !.userId = u] : u \in {Dec(2, 0), Dec(0, 0)}}
    \cup {[BaseRequest EXCEPT !.deliveryDate = d] : d \in {-1, 0}}
    \cup {[BaseRequest EXCEPT !.freshnessRequirementHours = h] :
            h \in {Dec(MaxFreshness, 0), Dec(MaxFreshness + 1, 0), Dec(0, 0)}}
    \cup {[BaseRequest EXCEPT !.deliveryLatitude = v] :
            v \in {Dec(MinLat, 0), Dec(MaxLat, 0), Dec(10 * MinLat - 1, 1), Dec(MaxLat + 1, 0)}}
    \cup {[BaseRequest EXCEPT !.deliveryLongitude = v] :
            v \in {Dec(MinLng, 0), Dec(MaxLng, 0), Dec(MinLng - 1, 0), Dec(10 * MaxLng + 1, 1)}}
    \cup {[BaseRequest EXCEPT !.deliveryAddress = n] :
            n \in {MinAddress - 1, MaxAddress, MaxAddress + 1}}
    \cup {[BaseRequest EXCEPT !.specialInstructions = n] :
            n \in {MaxInstructions, MaxInstructions + 1}}
    \cup {[BaseRequest EXCEPT !.deliveryDate = -1, !.deliveryAddress = MinAddress - 1,
                              !.orderItems = <<>>]}

\* ---- the database -------------------------------------------------------
OrderRow(id, info, total) ==
    [id |-> id,
     userId |-> FToInt(info.userId),
     deliveryDate |-> info.deliveryDate,
     freshnessRequirementHours |-> FToInt(info.freshnessRequirementHours),
     deliveryLatitude |-> ToDecimal(info.deliveryLatitude),
     deliveryLongitude |-> ToDecimal(info.deliveryLongitude),
     deliveryAddress |-> info.deliveryAddress,
     specialInstructions |-> info.specialInstructions,
     totalAmount |-> ToDecimal(total),
     status |-> "pending"]

\* Mutation of ItemRow: quantityKg and unitPrice swapped.
ItemRowSwapped(id, orderId, item) ==
    [id |-> id,
     orderId |-> orderId,
     fishTypeId |-> FToInt(item.fishTypeId),
     quantityKg |-> ToDecimal(item.unitPrice),
     unitPrice |-> ToDecimal(item.quantityKg),
     subtotal |-> ToDecimal(FMul(item.quantityKg, item.unitPrice))]

ItemRow(id, orderId, item) ==
    [id |-> id,
     orderId |-> orderId,
     fishTypeId |-> FToInt(item.fishTypeId),
     quantityKg |-> ToDecimal(item.quantityKg),
     unitPrice |-> ToDecimal(item.unitPrice),
     subtotal |-> ToDecimal(FMul(item.quantityKg, item.unitPrice))]

HistoryRow(id, orderId) ==
    [id |-> id, orderId |-> orderId, status |-> "pending", notes |-> "Order created"]

\* orderItems.reduce((sum, item) => sum + item.quantityKg * item.unitPrice, 0)
RECURSIVE ReduceTotal(_, _, _)
ReduceTotal(items, i, sum) ==
    IF i > Len(items) THEN sum
    ELSE ReduceTotal(items, i + 1, FAdd(sum, FMul(items[i].quantityKg, items[i].unitPrice)))

TotalAmount(items) == ReduceTotal(items, 1, FZero)

\* ---- prisma.$transaction ------------------------------------------------
\* Mutation of Committed: the new order takes the place of the user's earlier
\* orders, which go with their items and history.
CommittedReplacing(store, staged) ==
    LET new == {staged.order[i] : i \in 1..Len(staged.order)}
        kept == {o \in store.orders : \A n \in new : n.userId # o.userId}
        ofKept(rows) == {r \in rows : \E o \in kept : o.id = r.orderId}
    IN  [orders |-> kept \cup new,
         orderItems |-> ofKept(store.orderItems)
                           \cup {staged.items[i] : i \in 1..Len(staged.items)},
         statusHistory |-> ofKept(store.statusHistory)
                              \cup {staged.history[i] : i \in 1..Len(staged.history)}]

\* The committed rows after the callback returned and the commit succeeded.
Committed(store, staged) ==
    [orders |-> store.orders \cup {staged.order[i] : i \in 1..Len(staged.order)},
     orderItems |-> store.orderItems \cup {staged.items[i] : i \in 1..Len(staged.items)},
     statusHistory |-> store.statusHistory
                          \cup {staged.history[i] : i \in 1..Len(staged.history)}]

\* Mutation of RolledBack: the rows written before the failing step stay.
RolledBackPartial(store, staged) == Committed(store, staged)

\* The committed rows after the callback threw (or the commit failed): the
\* transaction is rolled back.
RolledBack(store, staged) == store

\* Mutation of AllItemsCreated: Promise.all is not awaited.
ItemsNotAwaited(staged, data) == TRUE

\* await Promise.all(orderItems.map(..create..)) has resolved: every item insert
\* of the order has completed.
AllItemsCreated(staged, data) == Len(staged.items) = Len(data.orderItems)

\* Mutation of CatchReply: the answer carries the cause.
CatchReplyWithCause(cause) == Reply(500, cause, <<>>, NoData)

\* The controller's catch: whatever was thrown, the same answer.
CatchReply(cause) == Reply(500, "Failed to create order", <<>>, NoData)

\* The transaction rejects at `step`: rollback, createOrder rejects, the
\* controller's catch logs and answers 500.
TxFails(step) ==
    /\ orders' = RolledBack(Store, tx).orders
    /\ orderItems' = RolledBack(Store, tx).orderItems
    /\ statusHistory' = RolledBack(Store, tx).statusHistory
    /\ tx' = NoTx
    /\ lastError' = step
    /\ response' = CatchReply(step)
    /\ pc' = "idle"

(***************************************************************************)
(* Weather synchronization job (WeatherService).                           *)
(***************************************************************************)
NumLocations == 2
MaxRuns == 2

\* The first NumLocations entries of WeatherService.locations.
AllLocations ==
    <<[name |-> "Colombo", lat |-> Dec(69271, 4), lng |-> Dec(798612, 4)],
      [name |-> "Negombo", lat |-> Dec(72084, 4), lng |-> Dec(798358, 4)],
      [name |-> "Galle", lat |-> Dec(60535, 4), lng |-> Dec(80221, 3)],
      [name |-> "Trincomalee", lat |-> Dec(85874, 4), lng |-> Dec(812152, 4)],
      [name |-> "Jaffna", lat |-> Dec(96615, 4), lng |-> Dec(800255, 4)],
      [name |-> "Hambantota", lat |-> Dec(61241, 4), lng |-> Dec(811185, 4)]>>
Locations == SubSeq(AllLocations, 1, NumLocations)

DefaultTemperature == 27
DefaultWindSpeed == 15
DefaultPrecipitation == 0
DefaultHumidity == 80

\* An array entry that is undefined or null.
Undefined == -1000
\* The time value of new Date(s) for a string that is no date.
InvalidDate == 0

Some(v) == [present |-> TRUE, v |-> v]
None == [present |-> FALSE, v |-> <<>>]

\* A response of the weather API: axios rejects (kind "error", "timeout"), or
\* response.data with its daily object and the arrays in it.
WxResponse(kind, hasDaily, time, t, w, p, h) ==
    [kind |-> kind, hasDaily |-> hasDaily, time |-> time,
     temperature_2m_mean |-> t, wind_speed_10m_max |-> w,
     precipitation_sum |-> p, relative_humidity_2m_mean |-> h]
NoWxResponse == WxResponse("none", FALSE, None, None, None, None, None)
WxData(time, t, w, p, h) ==
    WxResponse("ok", TRUE, Some(time), Some(t), Some(w), Some(p), Some(h))

Day1 == "2025-06-01"
Day2 == "2025-06-02"

\* new Date(s).getTime() in days, InvalidDate for NaN.
DateOf(s) ==
    CASE s = Day1 -> 1
      [] s = Day2 -> 2
      [] OTHER -> InvalidDate

WxError == WxResponse("error", FALSE, None, None, None, None, None)

WxFailures ==
    { WxError,
      WxResponse("timeout", FALSE, None, None, None, None, None),
      WxResponse("ok", FALSE, None, None, None, None, None),
      WxResponse("ok", TRUE, None, Some(<<25>>), Some(<<10>>), Some(<<0>>), Some(<<70>>)),
      WxResponse("ok", TRUE, Some(<<>>), Some(<<>>), Some(<<>>), Some(<<>>), Some(<<>>)) }

WxReadingsA == WxData(<<Day1, Day2>>, <<25, 26>>, <<10, 11>>, <<0, 3>>, <<70, 71>>)
WxReadingsB == WxData(<<Day1, Day2>>, <<30, 31>>, <<20, 21>>, <<5, 0>>, <<90, 91>>)

WxPartial ==
    { WxData(<<"", Day2>>, <<25, 26>>, <<10, 11>>, <<0, 3>>, <<70, 71>>),
      WxData(<<"soon", Day2>>, <<25, 26>>, <<10, 11>>, <<0, 3>>, <<70, 71>>),
      WxResponse("ok", TRUE, Some(<<Day1>>), None, Some(<<Undefined>>), Some(<<>>), Some(<<70>>)) }

\* One day with a date, and each subset of the four series present.
WxSparse ==
    { WxResponse("ok", TRUE, Some(<<Day1>>),
                 IF "t" \in present THEN Some(<<0>>) ELSE None,
                 IF "w" \in present THEN Some(<<10>>) ELSE None,
                 IF "p" \in present THEN Some(<<3>>) ELSE None,
                 IF "h" \in present THEN Some(<<70>>) ELSE None) :
        present \in SUBSET {"t", "w", "p", "h"} }

\* One day of readings, other ones in each run.
WxOneDay(run) == WxData(<<Day1>>, <<24 + run>>, <<10 + run>>, <<run>>, <<70 + run>>)

\* What the weather API may answer to a run: every shape in a scenario of
\* shapes; else one reading per run (the readings change from run to run,
\* and between the two callers when runs overlap), or a failed request.
WxFeed(sc, run, slot) ==
    IF sc.job = "average" THEN {WxOneDay(run), WxError}
    ELSE IF sc.overlap
    THEN {IF slot = "cron" THEN WxReadingsA ELSE WxReadingsB, WxError}
    ELSE IF sc.script = "reruns"
    THEN {IF run % 2 = 1 THEN WxReadingsA ELSE WxReadingsB, WxError}
    ELSE WxFailures \cup {WxReadingsA, WxReadingsB} \cup WxPartial \cup WxSparse

WxSlots == {"cron", "refresh"}

\* Runs a scenario starts: one where every shape of response is tried, one
\* per caller where two callers overlap, up to MaxRuns where runs repeat.
RunBudget(sc) ==
    IF sc.script = "shapes" THEN 1
    ELSE IF sc.overlap THEN Cardinality(WxSlots)
    ELSE MaxRuns

\* Runs of `job` a scenario starts; where the weather average is looked
\* at, a weather run, a later one and a prediction run.
JobBudget(sc, job) ==
    IF sc.job = "average" THEN (IF job = "weather" THEN 2 ELSE 1)
    ELSE IF sc.job = job THEN RunBudget(sc)
    ELSE 0

WxKey(date, loc) == [forecastDate |-> date, latitude |-> loc.lat, longitude |-> loc.lng]
KeyOf(row) ==
    [forecastDate |-> row.forecastDate, latitude |-> row.latitude, longitude |-> row.longitude]
RowsAt(table, key) == {r \in table : KeyOf(r) = key}

\* Mutation of WxValue: series?.[i] || fallback
WxValueOr(series, i, fallback) ==
    IF ~series.present THEN fallback
    ELSE IF i > Len(series.v) THEN fallback
    ELSE IF series.v[i] = Undefined \/ series.v[i] = 0 THEN fallback
    ELSE series.v[i]

\* series?.[i] ?? fallback
WxValue(series, i, fallback) ==
    IF ~series.present THEN fallback
    ELSE IF i > Len(series.v) THEN fallback
    ELSE IF series.v[i] = Undefined THEN fallback
    ELSE series.v[i]

WxValues(resp, i) ==
    [temperature2mMean |-> WxValue(resp.temperature_2m_mean, i, DefaultTemperature),
     windSpeed10mMax |-> WxValue(resp.wind_speed_10m_max, i, DefaultWindSpeed),
     precipitationSum |-> WxValue(resp.precipitation_sum, i, DefaultPrecipitation),
     relativeHumidity2mMean |-> WxValue(resp.relative_humidity_2m_mean, i, DefaultHumidity)]

\* Mutation of WxNoDate: only the missing time value is skipped.
WxNoDateWhenMissing(timeValue) == timeValue = ""

\* !timeValue, or isNaN(new Date(timeValue).getTime())
WxNoDate(timeValue) == timeValue = "" \/ DateOf(timeValue) = InvalidDate

\* Mutation of WxUnusable: an empty time array is let through.
WxUnusableWhenMissing(resp) == ~resp.hasDaily \/ ~resp.time.present

\* !weatherData.daily?.time || weatherData.daily.time.length === 0
WxUnusable(resp) == ~resp.hasDaily \/ ~resp.time.present \/ Len(resp.time.v) = 0

\* createdAt of a row the create call gives no createdAt for: the time of
\* the insert.
CreatedAtDefault(now) == now

\* The row prisma.weatherForecast.upsert creates; copy tells apart rows of
\* one composite key (their ids), should there ever be two.
ForecastCreate(key, loc, vals, n, now) ==
    [forecastDate |-> key.forecastDate, latitude |-> key.latitude,
     longitude |-> key.longitude, location |-> loc.name,
     temperature2mMean |-> vals.temperature2mMean,
     windSpeed10mMax |-> vals.windSpeed10mMax,
     precipitationSum |-> vals.precipitationSum,
     relativeHumidity2mMean |-> vals.relativeHumidity2mMean,
     createdAt |-> CreatedAtDefault(now),
     copy |-> n]

\* Mutation of ForecastUpdate: the update leaves the stored values.
ForecastUpdateKeepsValues(row, vals) == row

\* The row prisma.weatherForecast.upsert leaves when it updates.
ForecastUpdate(row, vals) ==
    [row EXCEPT !.temperature2mMean = vals.temperature2mMean,
                !.windSpeed10mMax = vals.windSpeed10mMax,
                !.precipitationSum = vals.precipitationSum,
                !.relativeHumidity2mMean = vals.relativeHumidity2mMean]

\* The unique index behind forecastDate_latitude_longitude (and behind
\* fishTypeId_predictionDate): an insert succeeds only on a free key.
UniqueKeyFree(rowsAtKey) == rowsAtKey = {}

\* Mutation of ForecastUpsert: a plain create in place of the upsert.
ForecastCreateOnly(table, key, loc, vals, path, now) ==
    table \cup {ForecastCreate(key, loc, vals, Cardinality(RowsAt(table, key)), now)}

\* The table after prisma.weatherForecast.upsert: the create branch when its
\* lookup found no row, the update branch otherwise.
ForecastUpsert(table, key, loc, vals, path, now) ==
    IF path = "insert"
    THEN table \cup {ForecastCreate(key, loc, vals, Cardinality(RowsAt(table, key)), now)}
    ELSE (table \ RowsAt(table, key))
            \cup {ForecastUpdate(row, vals) : row \in RowsAt(table, key)}

WxIdle ==
    [pc |-> "idle", run |-> 0, loc |-> 0, resp |-> NoWxResponse, day |-> 0, path |-> "none",
     attempts |-> <<>>, failed |-> <<>>, causes |-> <<>>, written |-> {}]

\* The location is over (its try block ended or threw): the next location,
\* or the end of fetchAndStoreWeatherData.
WxAdvance(r, failed) ==
    LET log == IF failed THEN Append(r.failed, r.loc) ELSE r.failed IN
    IF r.loc >= NumLocations
    THEN [r EXCEPT !.pc = "returned", !.failed = log, !.resp = NoWxResponse,
                   !.day = 0, !.path = "none"]
    ELSE [r EXCEPT !.pc = "fetch", !.loc = r.loc + 1, !.failed = log,
                   !.resp = NoWxResponse, !.day = 0, !.path = "none"]

\* logger.error(.., error) in the catch of fetchLocationWeather: the error
\* thrown for the location is on the log.
WxThrown(r, cause) == [r EXCEPT !.causes = Append(@, cause)]

\* Mutation of WxLocationFailed: the batch's catch rethrows.
WxLocationRethrown(r) ==
    [r EXCEPT !.pc = "raised", !.failed = Append(r.failed, r.loc),
              !.resp = NoWxResponse, !.day = 0, !.path = "none"]

\* fetchLocationWeather threw: it logs and rethrows, the catch of
\* fetchAndStoreWeatherData logs, and the loop goes on.
WxLocationFailed(r) == WxAdvance(r, TRUE)

\* Bookkeeping for the properties: the last values a unit of a run (a
\* location, a fish type) wrote under a key.
Logged(writes, unit, key, vals) ==
    {x \in writes : ~(x.key = key /\ x.unit = unit)}
        \cup {[key |-> key, vals |-> vals, unit |-> unit]}

\* Bookkeeping for the properties: the row count a run leaves when it returns.
WxLogRows(log, r, table) ==
    IF r.pc = "returned" THEN [log EXCEPT ![r.run].rows = Cardinality(table)] ELSE log

StartWeatherRun(s) ==
    /\ wx[s].pc \in {"idle", "returned"}
    /\ Len(wxLog) < JobBudget(scenario, "weather")
    /\ scenario.overlap \/ s = "cron"
    /\ wx' = [wx EXCEPT ![s] =
                 [WxIdle EXCEPT !.pc = "fetch", !.run = Len(wxLog) + 1, !.loc = 1]]
    /\ wxLog' = Append(wxLog, [writes |-> {}, rows |-> -1])
    /\ runsStarted' = runsStarted + 1
    /\ UNCHANGED <<scenario, forecasts, pred, predictions, predLog>>
    /\ UNCHANGED <<orderVars, schedVars, settingsVars, seedVars>>

\* axios.get and the check of daily.time
FetchLocationWeather(s) ==
    /\ wx[s].pc = "fetch"
    /\ \E resp \in WxFeed(scenario, wx[s].run, s) :
          LET r == [wx[s] EXCEPT !.attempts = Append(@, wx[s].loc)] IN
          wx' = [wx EXCEPT ![s] =
                    IF resp.kind # "ok"
                    THEN WxLocationFailed(WxThrown(r, "request failed"))
                    ELSE IF WxUnusable(resp)
                    THEN WxLocationFailed(WxThrown(r, "No weather data received"))
                    ELSE [r EXCEPT !.pc = "day", !.resp = resp, !.day = 1]]
    /\ wxLog' = WxLogRows(wxLog, wx'[s], forecasts)
    /\ UNCHANGED <<scenario, runsStarted, forecasts, pred, predictions, predLog>>
    /\ UNCHANGED <<orderVars, schedVars, settingsVars, seedVars>>

\* One turn of the loop over daily.time, up to the upsert call: the end of
\* the series, a skipped day, or the upsert's lookup of the composite key.
WeatherDay(s) ==
    /\ wx[s].pc = "day"
    /\ LET r == wx[s]
           time == r.resp.time.v
       IN  wx' = [wx EXCEPT ![s] =
                    IF r.day > Len(time) THEN WxAdvance(r, FALSE)
                    ELSE IF WxNoDate(time[r.day])
                    THEN [r EXCEPT !.day = r.day + 1]
                    ELSE [r EXCEPT !.pc = "write",
                             !.path = IF RowsAt(forecasts,
                                                WxKey(DateOf(time[r.day]), Locations[r.loc])) = {}
                                      THEN "insert" ELSE "update"]]
    /\ wxLog' = WxLogRows(wxLog, wx'[s], forecasts)
    /\ UNCHANGED <<scenario, runsStarted, forecasts, pred, predictions, predLog>>
    /\ UNCHANGED <<orderVars, schedVars, settingsVars, seedVars>>

\* prisma.weatherForecast.upsert completes: it fails (the database, or the
\* unique index when another run inserted the key since the lookup), or it
\* writes; an upsert the database runs as INSERT .. ON CONFLICT DO UPDATE
\* (native) has no lookup to go stale.
\* Mutation of RefreshWeatherData: success only when no location failed.
RefreshReportsFailures(r) ==
    IF r.pc = "returned" /\ r.failed = <<>>
    THEN [status |-> 200, success |-> TRUE, message |-> "Weather data refreshed successfully"]
    ELSE IF r.pc \in {"returned", "raised"}
    THEN [status |-> 500, success |-> FALSE, message |-> "Failed to refresh weather data"]
    ELSE [status |-> 0, success |-> FALSE, message |-> ""]

\* WeatherController.refreshWeatherData: what POST /weather/refresh answers
\* once the run it awaits has settled (nothing before): success when
\* fetchAndStoreWeatherData returned, 500 when it threw.
RefreshWeatherData(r) ==
    IF r.pc = "returned"
    THEN [status |-> 200, success |-> TRUE, message |-> "Weather data refreshed successfully"]
    ELSE IF r.pc = "raised"
    THEN [status |-> 500, success |-> FALSE, message |-> "Failed to refresh weather data"]
    ELSE [status |-> 0, success |-> FALSE, message |-> ""]

\* Mutation of AfterUpsertThrew: the rows the run wrote are taken back.
WrittenTakenBack(table, written) == {row \in table : KeyOf(row) \notin written}

\* The table after an upsert of the loop threw: the loop runs in no
\* transaction, the rows written before stay.
AfterUpsertThrew(table, written) == table

WeatherUpsert(s) ==
    /\ wx[s].pc = "write"
    /\ LET r == wx[s]
           loc == Locations[r.loc]
           key == WxKey(DateOf(r.resp.time.v[r.day]), loc)
           vals == WxValues(r.resp, r.day)
           path == IF RowsAt(forecasts, key) = {} THEN "insert" ELSE "update"
       IN  \E dbOk \in BOOLEAN, native \in BOOLEAN :
              IF ~dbOk \/ (~native /\ r.path = "insert" /\ ~UniqueKeyFree(RowsAt(forecasts, key)))
              THEN /\ wx' = [wx EXCEPT ![s] = WxLocationFailed(WxThrown(r, "database"))]
                   /\ wxLog' = WxLogRows(wxLog, wx'[s], forecasts)
                   /\ forecasts' = AfterUpsertThrew(forecasts, r.written)
              ELSE /\ forecasts' = ForecastUpsert(forecasts, key, loc, vals,
                                                  IF native THEN path ELSE r.path, clock)
                   /\ wxLog' = [wxLog EXCEPT ![r.run].writes = Logged(@, r.loc, key, vals)]
                   /\ wx' = [wx EXCEPT ![s] =
                                [r EXCEPT !.pc = "day", !.day = r.day + 1,
                                          !.path = "none", !.written = @ \cup {key}]]
    /\ UNCHANGED <<scenario, runsStarted, pred, predictions, predLog>>
    /\ UNCHANGED <<orderVars, schedVars, settingsVars, seedVars>>

(***************************************************************************)
(* Price prediction job (PricePredictionService).                          *)
(***************************************************************************)
FishType(id, fishName, isActive) == [id |-> id, fishName |-> fishName, isActive |-> isActive]

\* The FishType table: with one name per fish type, and with one name shared.
FishDistinct == {FishType(1, "tuna", TRUE), FishType(2, "seer", TRUE), FishType(3, "crab", FALSE)}
FishShared == {FishType(1, "tuna", TRUE), FishType(2, "tuna", TRUE), FishType(3, "crab", FALSE)}

PredictionDays == 7
ConfidenceLit == Dec(95, 2)

\* A response of the prediction API: axios rejects (kind "error", "timeout"),
\* or response.data with success and the two series of predictions.
PxResponse(kind, success, ws, rt) ==
    [kind |-> kind, success |-> success, avg_ws_price |-> ws, avg_rt_price |-> rt]
NoPxResponse == PxResponse("none", FALSE, None, None)

\* A price the series does not define at an index: reading the index gives
\* undefined (an array-like object such as {"length": 2, "1": 110}; JSON.parse
\* never puts undefined into an array).
NoPrice == [m |-> 0, e |-> -2]
\* A price the response gives as null, the JSON of a value that is missing.
NullPrice == [m |-> 0, e |-> -3]
Price(n, k) == ParseNum(Dec(n, k))

PxSeriesA == PxResponse("ok", TRUE, Some(<<Price(100, 0), Price(1105, 1)>>),
                                    Some(<<Price(150, 0), Price(1605, 1)>>))
PxSeriesB == PxResponse("ok", TRUE, Some(<<Price(200, 0)>>),
                                    Some(<<Price(250, 0), Price(260, 0)>>))
PxSeriesGap == PxResponse("ok", TRUE, Some(<<NoPrice, Price(110, 0)>>),
                                      Some(<<Price(150, 0), Price(160, 0)>>))

\* Ten wholesale prices with five retail prices, and both series past the
\* seven days stored.
PxSeriesLong == PxResponse("ok", TRUE, Some([i \in 1..10 |-> Price(100 + i, 0)]),
                                       Some([i \in 1..5 |-> Price(150 + i, 0)]))
PxSeriesOver == PxResponse("ok", TRUE, Some([i \in 1..8 |-> Price(100 + i, 0)]),
                                       Some([i \in 1..9 |-> Price(150 + i, 0)]))

PxSeriesNull == PxResponse("ok", TRUE, Some(<<Price(100, 0), NullPrice, Price(120, 0)>>),
                                       Some(<<Price(150, 0), Price(160, 0), Price(170, 0)>>))

PxRejections ==
    { PxResponse("ok", FALSE, Some(<<Price(100, 0)>>), Some(<<Price(150, 0)>>)),
      PxResponse("ok", TRUE, None, Some(<<Price(150, 0)>>)),
      PxResponse("ok", TRUE, Some(<<Price(100, 0)>>), None) }

PxError == PxResponse("error", FALSE, None, None)

\* What the prediction API may answer to a run, as WxFeed; where fish types
\* share a name, a series or a rejection.
PxFeed(sc, run, slot) ==
    IF sc.job = "average" THEN {PxError}
    ELSE IF sc.overlap
    THEN {IF slot = "cron" THEN PxSeriesA ELSE PxSeriesB, PxError}
    ELSE IF sc.script = "reruns"
    THEN {IF run % 2 = 1 THEN PxSeriesA ELSE PxSeriesB, PxError}
    ELSE IF sc.fishTypes = FishShared
    THEN {PxSeriesA, PxSeriesB} \cup PxRejections
    ELSE PxRejections \cup {PxSeriesA, PxSeriesB, PxSeriesGap, PxSeriesLong, PxSeriesOver,
                            PxSeriesNull, PxError, PxResponse("timeout", FALSE, None, None)}

\* response.data.success is false, or one of the two series is missing.
PxRejected(resp) ==
    resp.kind = "ok" /\ (~resp.success \/ ~resp.avg_ws_price.present \/ ~resp.avg_rt_price.present)

Min(a, b) == IF a <= b THEN a ELSE b

\* Mutation of MaxLength: no cap at seven days.
MaxLengthOfSeries(resp) == Min(Len(resp.avg_ws_price.v), Len(resp.avg_rt_price.v))

\* Math.min(avg_ws_price.length, avg_rt_price.length, 7)
MaxLength(resp) ==
    Min(Min(Len(resp.avg_ws_price.v), Len(resp.avg_rt_price.v)), PredictionDays)

PredSlots == {"cron", "overlapping"}

PredKey(fishTypeId, date) == [fishTypeId |-> fishTypeId, predictionDate |-> date]
PredKeyOf(row) == [fishTypeId |-> row.fishTypeId, predictionDate |-> row.predictionDate]
PredRowsAt(table, key) == {r \in table : PredKeyOf(r) = key}

PxResponses ==
    PxRejections \cup {PxSeriesA, PxSeriesB, PxSeriesGap, PxSeriesLong, PxSeriesOver,
                       PxSeriesNull}
PxPrices ==
    UNION {{resp.avg_ws_price.v[i] : i \in 1..Len(resp.avg_ws_price.v)}
              \cup {resp.avg_rt_price.v[i] : i \in 1..Len(resp.avg_rt_price.v)}
           : resp \in PxResponses} \ {NoPrice, NullPrice}

\* new Decimal(price) throws ([DecimalError] Invalid argument) for a price
\* that is no number.
DecimalThrows(price) == price = NullPrice

\* new Decimal(price), tabulated over the prices of the feed.
PriceDecimal == [x \in PxPrices |-> ToDecimal(x)]
\* new Decimal(0.95)
Confidence == ToDecimal(ParseNum(ConfidenceLit))

\* Mutation of PredValues: the two prices change places.
PredValuesSwapped(resp, i) ==
    [retailPrice |-> PriceDecimal[resp.avg_ws_price.v[i]],
     wholesalePrice |-> PriceDecimal[resp.avg_rt_price.v[i]],
     confidence |-> Confidence]

PredValues(resp, i) ==
    [retailPrice |-> PriceDecimal[resp.avg_rt_price.v[i]],
     wholesalePrice |-> PriceDecimal[resp.avg_ws_price.v[i]],
     confidence |-> Confidence]

\* The row prisma.dailyPricePrediction.upsert creates.
PredictionCreate(key, vals, n) ==
    [fishTypeId |-> key.fishTypeId, predictionDate |-> key.predictionDate,
     retailPrice |-> vals.retailPrice, wholesalePrice |-> vals.wholesalePrice,
     confidence |-> vals.confidence, copy |-> n]

\* The row prisma.dailyPricePrediction.upsert leaves when it updates.
PredictionUpdate(row, vals) ==
    [row EXCEPT !.retailPrice = vals.retailPrice,
                !.wholesalePrice = vals.wholesalePrice,
                !.confidence = vals.confidence]

\* The table after prisma.dailyPricePrediction.upsert.
PredictionUpsert(table, key, vals, path) ==
    IF path = "insert"
    THEN table \cup {PredictionCreate(key, vals, Cardinality(PredRowsAt(table, key)))}
    ELSE (table \ PredRowsAt(table, key))
            \cup {PredictionUpdate(row, vals) : row \in PredRowsAt(table, key)}

\* new Date(): the day and the time of day.
TimesOfDay == {"00:00", "09:30"}
Instant(day, time) == [day |-> day, time |-> time]
NoInstant == Instant(-1, "none")

\* predictionDate = new Date(today); predictionDate.setDate(today.getDate() + i)
AddDays(today, i) == [today EXCEPT !.day = @ + i]

\* The value the predictionDate column keeps of an instant: its date.
DateColumn(instant) == instant.day

PredIdle ==
    [pc |-> "idle", run |-> 0, queue |-> <<>>, idx |-> 0, resp |-> NoPxResponse,
     target |-> 0, today |-> NoInstant, day |-> 0, path |-> "none", calls |-> <<>>,
     requests |-> <<>>, failed |-> <<>>]

\* The fish type is over (generatePredictionForFish returned or threw, the
\* catch in the loop logged): the next fish type, or the end of the job.
PredAdvance(r, failed) ==
    LET log == IF failed THEN Append(r.failed, r.queue[r.idx].id) ELSE r.failed IN
    [r EXCEPT !.pc = IF r.idx >= Len(r.queue) THEN "returned" ELSE "call",
              !.idx = IF r.idx >= Len(r.queue) THEN r.idx ELSE r.idx + 1,
              !.failed = log, !.resp = NoPxResponse, !.target = 0, !.today = NoInstant,
              !.day = 0, !.path = "none"]

\* The orders in which findMany may return a set of rows.
RECURSIVE Orderings(_)
Orderings(rows) ==
    IF rows = {} THEN {<<>>}
    ELSE UNION {{<<r>> \o rest : rest \in Orderings(rows \ {r})} : r \in rows}

DefaultAvgPrecipitation == 2

RECURSIVE SumOver(_, _)
SumOver(rows, field) ==
    IF rows = {} THEN 0
    ELSE LET r == CHOOSE x \in rows : TRUE IN r[field] + SumOver(rows \ {r}, field)

\* Number(averageData._avg.<field> ?? fallback)
AvgOrDefault(table, field, fallback) ==
    IF table = {} THEN FInt(fallback)
    ELSE FRoundRat(SumOver(table, field), Cardinality(table))

WindowDays == 7

\* where: { createdAt: { gte: sevenDaysAgo } }
CreatedSince(table, now) == {r \in table : r.createdAt >= now - WindowDays}

\* Mutation of GetAverageWeatherData: no filter on createdAt.
GetAverageOfAllRows(table, now) ==
    [temperature_2m_mean |-> AvgOrDefault(table, "temperature2mMean", DefaultTemperature),
     wind_speed_10m_max |-> AvgOrDefault(table, "windSpeed10mMax", DefaultWindSpeed),
     precipitation_sum |-> AvgOrDefault(table, "precipitationSum", DefaultAvgPrecipitation),
     relative_humidity_2m_mean |-> AvgOrDefault(table, "relativeHumidity2mMean", DefaultHumidity)]

\* WeatherService.getAverageWeatherData over the rows of the last seven days.
GetAverageWeatherData(table, now) ==
    LET rows == CreatedSince(table, now) IN
    [temperature_2m_mean |-> AvgOrDefault(rows, "temperature2mMean", DefaultTemperature),
     wind_speed_10m_max |-> AvgOrDefault(rows, "windSpeed10mMax", DefaultWindSpeed),
     precipitation_sum |-> AvgOrDefault(rows, "precipitationSum", DefaultAvgPrecipitation),
     relative_humidity_2m_mean |-> AvgOrDefault(rows, "relativeHumidity2mMean", DefaultHumidity)]

\* Mock economic data and mock ocean data of generateDailyPredictions.
EconomicData ==
    [dollar_rate |-> Dec(30230, 2), kerosene_price |-> Dec(18500, 2),
     diesel_lad_price |-> Dec(28300, 2), super_diesel_lsd_price |-> Dec(31300, 2)]
OceanData ==
    [wave_height_max |-> Dec(178, 2), wind_wave_height_max |-> Dec(64, 2),
     swell_wave_height_max |-> Dec(136, 2), wave_period_max |-> Dec(845, 2),
     wave_direction_dominant |-> Dec(25229, 2)]

RequestedDays == 7

\* requestData of generatePredictionForFish
PredictionRequest(fishName, weatherData, oceanData, economicData) ==
    [fish_type |-> fishName, prediction_days |-> RequestedDays,
     weather_data |-> weatherData, ocean_data |-> oceanData,
     economic_data |-> economicData]

\* Mutation of WeatherData: the average is read again for each call.
WeatherDataReadAgain(log, table, now) == GetAverageWeatherData(table, now)

\* const weatherData of generateDailyPredictions, read once before the loop.
WeatherData(log, table, now) == log.weather

StartPredictionRun(s) ==
    /\ pred[s].pc \in {"idle", "returned", "raised"}
    /\ Len(predLog) < JobBudget(scenario, "prediction")
    /\ scenario.overlap \/ s = "cron"
    /\ pred' = [pred EXCEPT ![s] = [PredIdle EXCEPT !.pc = "setup", !.run = Len(predLog) + 1]]
    /\ predLog' = Append(predLog, [writes |-> {}, rejected |-> {}, weather |-> <<>>])
    /\ runsStarted' = runsStarted + 1
    /\ UNCHANGED <<scenario, wx, forecasts, wxLog, predictions>>
    /\ UNCHANGED <<orderVars, schedVars, settingsVars, seedVars>>

\* generateDailyPredictions up to its loop: the active fish types, in the
\* order findMany returns them, and the weather average; a failing read
\* rejects the job.
\* Mutation of SetupFailed: the outer catch logs and does not rethrow.
SetupFailureSwallowed(r) == [r EXCEPT !.pc = "returned"]

\* A read before the loop threw: the outer catch logs and rethrows, the
\* promise of generateDailyPredictions rejects.
SetupFailed(r) == [r EXCEPT !.pc = "raised"]

PredictionSetup(s) ==
    /\ pred[s].pc = "setup"
    /\ LET r == pred[s]
           fishTypes == {f \in scenario.fishTypes : f.isActive}
       IN  \E dbOk \in BOOLEAN, queue \in Orderings(fishTypes) :
              IF ~dbOk
              THEN /\ pred' = [pred EXCEPT ![s] = SetupFailed(r)]
                   /\ UNCHANGED predLog
              ELSE /\ pred' = [pred EXCEPT ![s] =
                                 [r EXCEPT !.pc = IF queue = <<>> THEN "returned" ELSE "call",
                                           !.queue = queue,
                                           !.idx = IF queue = <<>> THEN 0 ELSE 1]]
                   /\ predLog' = [predLog EXCEPT ![r.run].weather =
                                                     GetAverageWeatherData(forecasts, clock)]
    /\ UNCHANGED <<scenario, runsStarted, wx, forecasts, wxLog, predictions>>
    /\ UNCHANGED <<orderVars, schedVars, settingsVars, seedVars>>

\* generatePredictionForFish: axios.post and the check of success.
PredictionCall(s) ==
    /\ pred[s].pc = "call"
    /\ \E resp \in PxFeed(scenario, pred[s].run, s) :
          LET fishType == pred[s].queue[pred[s].idx]
              r == [pred[s] EXCEPT
                       !.calls = Append(@, fishType.id),
                       !.requests = Append(@,
                           PredictionRequest(fishType.fishName,
                                             WeatherData(predLog[pred[s].run], forecasts, clock),
                                             OceanData, EconomicData))]
          IN
          /\ pred' = [pred EXCEPT ![s] =
                         IF resp.kind # "ok" \/ ~resp.success
                         THEN PredAdvance(r, TRUE)
                         ELSE [r EXCEPT !.pc = "store", !.resp = resp]]
          /\ predLog' = IF PxRejected(resp)
                        THEN [predLog EXCEPT ![r.run].rejected = @ \cup {r.queue[r.idx].id}]
                        ELSE predLog
    /\ UNCHANGED <<scenario, runsStarted, wx, forecasts, wxLog, predictions>>
    /\ UNCHANGED <<orderVars, schedVars, settingsVars, seedVars>>

\* storePredictions up to its loop: findFirst by fishName returns any one of
\* the rows of that name, then the check that both series are there.
StorePredictions(s) ==
    /\ pred[s].pc = "store"
    /\ LET r == pred[s]
           fishName == r.queue[r.idx].fishName
           named == {f \in scenario.fishTypes : f.fishName = fishName}
       IN  \E dbOk \in BOOLEAN, fishType \in named, time \in TimesOfDay :
              pred' = [pred EXCEPT ![s] =
                         IF ~dbOk \/ ~r.resp.avg_ws_price.present \/ ~r.resp.avg_rt_price.present
                         THEN PredAdvance(r, TRUE)
                         ELSE [r EXCEPT !.pc = "day", !.target = fishType.id,
                                        !.today = Instant(clock, time), !.day = 1]]
    /\ UNCHANGED <<scenario, runsStarted, wx, forecasts, wxLog, predictions, predLog>>
    /\ UNCHANGED <<orderVars, schedVars, settingsVars, seedVars>>

\* One turn of the loop of storePredictions, up to the upsert call; index i
\* of the code is day - 1, and today is the clock.
PredictionDay(s) ==
    /\ pred[s].pc = "day"
    /\ LET r == pred[s] IN
       pred' = [pred EXCEPT ![s] =
                  IF r.day > MaxLength(r.resp) THEN PredAdvance(r, FALSE)
                  ELSE IF r.resp.avg_rt_price.v[r.day] = NoPrice
                          \/ r.resp.avg_ws_price.v[r.day] = NoPrice
                  THEN [r EXCEPT !.day = r.day + 1]
                  ELSE IF DecimalThrows(r.resp.avg_rt_price.v[r.day])
                          \/ DecimalThrows(r.resp.avg_ws_price.v[r.day])
                  THEN PredAdvance(r, TRUE)
                  ELSE [r EXCEPT !.pc = "write",
                           !.path = IF PredRowsAt(predictions,
                                                  PredKey(r.target,
                                                      DateColumn(AddDays(r.today, r.day - 1)))) = {}
                                    THEN "insert" ELSE "update"]]
    /\ UNCHANGED <<scenario, runsStarted, wx, forecasts, wxLog, predictions, predLog>>
    /\ UNCHANGED <<orderVars, schedVars, settingsVars, seedVars>>

\* prisma.dailyPricePrediction.upsert completes, as WeatherUpsert does.
PredictionWrite(s) ==
    /\ pred[s].pc = "write"
    /\ LET r == pred[s]
           key == PredKey(r.target, DateColumn(AddDays(r.today, r.day - 1)))
           vals == PredValues(r.resp, r.day)
           path == IF PredRowsAt(predictions, key) = {} THEN "insert" ELSE "update"
       IN  \E dbOk \in BOOLEAN, native \in BOOLEAN :
              IF ~dbOk \/ (~native /\ r.path = "insert"
                             /\ ~UniqueKeyFree(PredRowsAt(predictions, key)))
              THEN /\ pred' = [pred EXCEPT ![s] = PredAdvance(r, TRUE)]
                   /\ UNCHANGED <<predictions, predLog>>
              ELSE /\ predictions' = PredictionUpsert(predictions, key, vals,
                                                      IF native THEN path ELSE r.path)
                   /\ predLog' = [predLog EXCEPT ![r.run].writes =
                                     Logged(@, r.queue[r.idx].id, key, vals)]
                   /\ pred' = [pred EXCEPT ![s] =
                                  [r EXCEPT !.pc = "day", !.day = r.day + 1, !.path = "none"]]
    /\ UNCHANGED <<scenario, runsStarted, wx, forecasts, wxLog>>
    /\ UNCHANGED <<orderVars, schedVars, settingsVars, seedVars>>

MaxDays == 8

\* Time between two runs of the jobs: a week, or a day more.
DaysPass ==
    /\ scenario.job = "average"
    /\ \A s \in WxSlots : wx[s].pc \in {"idle", "returned"}
    /\ \A s \in PredSlots : pred[s].pc \in {"idle", "returned", "raised"}
    /\ \E days \in {WindowDays, WindowDays + 1} :
          /\ clock + days <= MaxDays
          /\ clock' = clock + days
    /\ UNCHANGED <<pc, reqBody, body, totalAmount, tx, orders, orderItems, statusHistory,
                   ids, response, pre, createCalls, lastError, served>>
    /\ UNCHANGED <<syncVars, schedVars, settingsVars, seedVars>>

SyncIdle ==
    /\ runsStarted = 0
    /\ wx = [s \in WxSlots |-> WxIdle]
    /\ forecasts = {}
    /\ wxLog = <<>>
    /\ pred = [s \in PredSlots |-> PredIdle]
    /\ predictions = {}
    /\ predLog = <<>>

(***************************************************************************)
(* The process (index.ts): cron tasks, signal and error handlers.          *)
(***************************************************************************)
HoursPerDay == 24
WeatherEveryHours == 6
PredictionHour == 0
ExitFailure == 1
MaxActive == 2

\* How many connections clients hold open at a time.
MaxConnections == 2

\* What server.close() does to the connections that are open and idle: the
\* runtime either leaves them to their clients or ends them at once; the
\* sources do not say which runtime runs them.
Runtimes == {"keepsIdle", "closesIdle"}

Jobs == {"weather", "prediction"}

\* cron.schedule('0 */6 * * *') and cron.schedule('0 0 * * *')
Due(j, h) ==
    IF j = "weather" THEN h % WeatherEveryHours = 0 ELSE h = PredictionHour

\* How a job's promise may settle: fetchAndStoreWeatherData catches every
\* location's error and has no other throw; generateDailyPredictions
\* rethrows the failure of its setup reads.
JobOutcomes(j) ==
    IF j = "weather" THEN {"resolved"} ELSE {"resolved", "rejected"}

Log(level, message) == [level |-> level, message |-> message]

ProcStart ==
    [alive |-> TRUE, exitCode |-> -1, logged |-> Log("info", "Setting up scheduled tasks..."),
     server |-> "listening", tasks |-> Jobs, rejection |-> FALSE,
     runtime |-> "keepsIdle", idle |-> 0, busy |-> 0]

Step(kind, job, outcome) == [kind |-> kind, job |-> job, outcome |-> outcome]
NoStep == Step("none", "none", "none")

\* Mutation of CallbackCatch: the callback without its try/catch, so that the
\* job's rejection rejects the callback's promise.
CallbackNoCatch(p, j) == [p EXCEPT !.rejection = TRUE]

\* catch (error) { logger.error('Scheduled ... failed', error) }
CallbackCatch(p, j) ==
    [p EXCEPT !.logged = Log("error", IF j = "weather"
                                      THEN "Scheduled weather update failed"
                                      ELSE "Scheduled price predictions failed")]

CallbackDone(p, j) ==
    [p EXCEPT !.logged = Log("info", IF j = "weather"
                                     THEN "Scheduled weather update completed"
                                     ELSE "Scheduled price predictions completed")]

\* process.on('unhandledRejection')
OnUnhandledRejection(p) ==
    [p EXCEPT !.logged = Log("error", "Unhandled Rejection"), !.rejection = FALSE]

\* Mutation of OnUncaughtException: the handler without process.exit.
OnUncaughtExceptionLogOnly(p) ==
    [p EXCEPT !.logged = Log("error", "Uncaught Exception")]

\* process.on('uncaughtException')
OnUncaughtException(p) ==
    [p EXCEPT !.logged = Log("error", "Uncaught Exception"),
              !.alive = FALSE, !.exitCode = ExitFailure]

SchedIdle ==
    /\ proc = ProcStart
    /\ hour = 0
    /\ active = [j \in Jobs |-> 0]
    /\ lastStep = NoStep

\* The clock reaches the next hour; the cron tasks due at it start their
\* callbacks, which log and call their job.
CronTick ==
    /\ proc.alive
    /\ LET h == (hour + 1) % HoursPerDay
           due == {j \in proc.tasks : Due(j, h)}
       IN  /\ \A j \in due : active[j] < MaxActive
           /\ hour' = h
           /\ active' = [j \in Jobs |-> IF j \in due THEN active[j] + 1 ELSE active[j]]
           /\ proc' = IF due = {} THEN proc
                      ELSE [proc EXCEPT !.logged =
                              Log("info", IF "prediction" \in due
                                          THEN "Running scheduled price predictions generation"
                                          ELSE "Running scheduled weather data update")]
           /\ lastStep' = Step("tick", "none", "none")
    /\ UNCHANGED <<orderVars, syncVars, settingsVars, seedVars>>

\* The job a callback awaits settles: the callback logs the completion, or
\* catches and logs the failure.
CallbackSettles(j) ==
    /\ proc.alive
    /\ active[j] > 0
    /\ \E outcome \in JobOutcomes(j) :
          /\ proc' = IF outcome = "rejected" THEN CallbackCatch(proc, j)
                     ELSE CallbackDone(proc, j)
          /\ lastStep' = Step("settle", j, outcome)
    /\ active' = [active EXCEPT ![j] = @ - 1]
    /\ UNCHANGED hour
    /\ UNCHANGED <<orderVars, syncVars, settingsVars, seedVars>>

\* A promise rejects with no handler, anywhere in the process.
UnhandledRejection ==
    /\ proc.alive
    /\ proc' = OnUnhandledRejection(proc)
    /\ lastStep' = Step("unhandledRejection", "none", "none")
    /\ UNCHANGED <<hour, active>>
    /\ UNCHANGED <<orderVars, syncVars, settingsVars, seedVars>>

\* An exception reaches the event loop, anywhere in the process.
UncaughtException ==
    /\ proc.alive
    /\ proc' = OnUncaughtException(proc)
    /\ lastStep' = Step("uncaughtException", "none", "none")
    /\ UNCHANGED <<hour, active>>
    /\ UNCHANGED <<orderVars, syncVars, settingsVars, seedVars>>

\* app.listen: a client opens a connection, which the server accepts while
\* it listens.
Connect ==
    /\ proc.alive
    /\ proc.server = "listening"
    /\ proc.idle + proc.busy < MaxConnections
    /\ proc' = [proc EXCEPT !.idle = @ + 1]
    /\ lastStep' = Step("connect", "none", "none")
    /\ UNCHANGED <<hour, active>>
    /\ UNCHANGED <<orderVars, syncVars, settingsVars, seedVars>>

\* A request arrives on an open connection and the application starts to
\* serve it.
RequestArrives ==
    /\ proc.alive
    /\ proc.idle > 0
    /\ proc' = [proc EXCEPT !.idle = @ - 1, !.busy = @ + 1]
    /\ lastStep' = Step("request", "none", proc.server)
    /\ UNCHANGED <<hour, active>>
    /\ UNCHANGED <<orderVars, syncVars, settingsVars, seedVars>>

\* The response to a request in flight ends. The connection is kept for the
\* next request or ended; a server that closes idle connections ends it when
\* it no longer listens.
ResponseEnds ==
    /\ proc.alive
    /\ proc.busy > 0
    /\ \E keepAlive \in BOOLEAN :
          /\ keepAlive => proc.server = "listening" \/ proc.runtime = "keepsIdle"
          /\ proc' = [proc EXCEPT !.busy = @ - 1,
                                  !.idle = IF keepAlive THEN @ + 1 ELSE @]
    /\ lastStep' = Step("response", "none", "none")
    /\ UNCHANGED <<hour, active>>
    /\ UNCHANGED <<orderVars, syncVars, settingsVars, seedVars>>

\* The client, or the keep-alive timeout, ends an idle connection.
Disconnect ==
    /\ proc.alive
    /\ proc.idle > 0
    /\ proc' = [proc EXCEPT !.idle = @ - 1]
    /\ lastStep' = Step("disconnect", "none", "none")
    /\ UNCHANGED <<hour, active>>
    /\ UNCHANGED <<orderVars, syncVars, settingsVars, seedVars>>

\* server.close(callback): the server stops accepting connections and keeps
\* the ones it has; the callback waits for them to end.
ServerClose(p) ==
    [p EXCEPT !.server = IF @ = "listening" THEN "closing" ELSE @,
              !.idle = IF p.runtime = "closesIdle" THEN 0 ELSE @]

\* SIGTERM or SIGINT: gracefulShutdown logs and asks the server to close.
GracefulShutdown ==
    /\ proc.alive
    /\ \E signal \in {"SIGTERM", "SIGINT"} :
          /\ proc' = [ServerClose(proc) EXCEPT !.logged = Log("info", signal)]
          /\ lastStep' = Step("signal", "none", signal)
    /\ UNCHANGED <<hour, active>>
    /\ UNCHANGED <<orderVars, syncVars, settingsVars, seedVars>>

\* The callback of server.close: the server has closed, process.exit(0).
ServerClosed ==
    /\ proc.alive
    /\ proc.server = "closing"
    /\ proc.idle + proc.busy = 0
    /\ proc' = [proc EXCEPT !.logged = Log("info", "HTTP server closed"),
                            !.server = "closed", !.alive = FALSE, !.exitCode = 0]
    /\ lastStep' = Step("closed", "none", "none")
    /\ UNCHANGED <<hour, active>>
    /\ UNCHANGED <<orderVars, syncVars, settingsVars, seedVars>>

(***************************************************************************)
(* User settings (GET and PUT /settings/:userId).                          *)
(***************************************************************************)
MaxSettingsRequests == 3
UserIdParams == {0, 1, 2}

\* A key of an object of the body or of the store: present with a value, or
\* not there.
Flag(b) == [present |-> TRUE, v |-> b]
NoFlag == [present |-> FALSE, v |-> FALSE]
Text(t) == [present |-> TRUE, v |-> t]
NoText == [present |-> FALSE, v |-> ""]

Notifications(email, sms, push) == [email |-> email, sms |-> sms, push |-> push]
Preferences(currency, language, timezone) ==
    [currency |-> currency, language |-> language, timezone |-> timezone]
Delivery(defaultAddress, preferredTimeSlot, specialInstructions) ==
    [defaultAddress |-> defaultAddress, preferredTimeSlot |-> preferredTimeSlot,
     specialInstructions |-> specialInstructions]

NoNotifications == Notifications(NoFlag, NoFlag, NoFlag)
NoPreferences == Preferences(NoText, NoText, NoText)
NoDelivery == Delivery(NoText, NoText, NoText)

\* An object of the body: given (with the keys it has) or left out.
Given(object) == [present |-> TRUE, keys |-> object]
Omitted(empty) == [present |-> FALSE, keys |-> empty]

SettingsBody(notifications, preferences, delivery) ==
    [notifications |-> notifications, preferences |-> preferences, delivery |-> delivery]

\* The bodies sent: nothing, single keys of each object, an empty object, a
\* full set, and a currency the schema does not allow.
SettingsBodies ==
    { SettingsBody(Omitted(NoNotifications), Omitted(NoPreferences), Omitted(NoDelivery)),
      SettingsBody(Given(Notifications(NoFlag, Flag(TRUE), NoFlag)),
                   Omitted(NoPreferences), Omitted(NoDelivery)),
      SettingsBody(Given(Notifications(Flag(FALSE), NoFlag, NoFlag)),
                   Omitted(NoPreferences), Omitted(NoDelivery)),
      SettingsBody(Given(NoNotifications), Omitted(NoPreferences), Omitted(NoDelivery)),
      SettingsBody(Omitted(NoNotifications),
                   Given(Preferences(Text("USD"), NoText, NoText)), Omitted(NoDelivery)),
      SettingsBody(Omitted(NoNotifications),
                   Given(Preferences(NoText, Text("si"), NoText)), Omitted(NoDelivery)),
      SettingsBody(Omitted(NoNotifications),
                   Given(Preferences(Text("EUR"), NoText, NoText)), Omitted(NoDelivery)),
      SettingsBody(Omitted(NoNotifications), Omitted(NoPreferences),
                   Given(Delivery(NoText, Text("morning"), NoText))),
      SettingsBody(Given(Notifications(Flag(FALSE), Flag(TRUE), Flag(FALSE))),
                   Given(Preferences(Text("USD"), Text("ta"), Text("UTC"))),
                   Given(Delivery(Text("harbour road"), Text("evening"), NoText))) }

Currencies == {"LKR", "USD"}
Languages == {"en", "si", "ta"}
TimeSlots == {"morning", "afternoon", "evening"}

\* settingsSchema: the keys whose value is not one of the valid ones.
SettingsSchemaErrors(b) ==
    LET p == b.preferences.keys
        d == b.delivery.keys
    IN  {k \in {"currency"} : p.currency.present /\ p.currency.v \notin Currencies}
        \cup {k \in {"language"} : p.language.present /\ p.language.v \notin Languages}
        \cup {k \in {"preferredTimeSlot"} :
                 d.preferredTimeSlot.present /\ d.preferredTimeSlot.v \notin TimeSlots}

Default(key, value) == IF key.present THEN key ELSE value

\* settingsSchema's value for a valid body: inside an object that is given,
\* every key that has a default and is not there takes the default; an
\* object left out stays out.
SettingsSchemaValue(b) ==
    LET n == b.notifications.keys
        p == b.preferences.keys
    IN  [b EXCEPT
           !.notifications.keys =
               IF b.notifications.present
               THEN Notifications(Default(n.email, Flag(TRUE)), Default(n.sms, Flag(FALSE)),
                                  Default(n.push, Flag(TRUE)))
               ELSE @,
           !.preferences.keys =
               IF b.preferences.present
               THEN Preferences(Default(p.currency, Text("LKR")), Default(p.language, Text("en")),
                                Default(p.timezone, Text("Asia/Colombo")))
               ELSE @]

\* What both routes take for a user who has nothing in the Map.
DefaultSettings ==
    [notifications |-> Notifications(Flag(TRUE), Flag(FALSE), Flag(TRUE)),
     preferences |-> Preferences(Text("LKR"), Text("en"), Text("Asia/Colombo")),
     delivery |-> NoDelivery]

NotSet == [set |-> FALSE, value |-> DefaultSettings]
IsSet(settings) == [set |-> TRUE, value |-> settings]

\* userSettings.get(userId) || { ...defaults }
CurrentSettings(map, userId) == map[userId].value

\* { ...current, ...given }: the keys of `given` over those of `current`; an
\* object left out of the body spreads to nothing.
Spread(current, given) ==
    [k \in DOMAIN current |-> IF given.present /\ given.keys[k].present
                              THEN given.keys[k] ELSE current[k]]

\* updatedSettings
UpdatedSettings(current, b) ==
    [notifications |-> Spread(current.notifications, b.notifications),
     preferences |-> Spread(current.preferences, b.preferences),
     delivery |-> Spread(current.delivery, b.delivery)]

NoSettings == [notifications |-> NoNotifications, preferences |-> NoPreferences,
               delivery |-> NoDelivery]
SettingsReply(status, message, data) == [status |-> status, message |-> message, data |-> data]
NoSettingsRequest ==
    [method |-> "none", userId |-> 0,
     body |-> SettingsBody(Omitted(NoNotifications), Omitted(NoPreferences), Omitted(NoDelivery))]

SettingsIdle ==
    /\ userSettings = [u \in UserIdParams \ {0} |-> NotSet]
    /\ settingsReq = NoSettingsRequest
    /\ settingsRes = SettingsReply(0, "", NoSettings)
    /\ settingsPre = userSettings
    /\ settingsServed = 0

\* GET /settings/:userId
GetSettings ==
    /\ settingsServed < MaxSettingsRequests
    /\ \E userId \in UserIdParams :
          /\ settingsReq' = [NoSettingsRequest EXCEPT !.method = "GET", !.userId = userId]
          /\ settingsRes' =
                IF userId <= 0
                THEN SettingsReply(400, "Parameter validation failed", NoSettings)
                ELSE SettingsReply(200, "", CurrentSettings(userSettings, userId))
    /\ settingsPre' = userSettings
    /\ settingsServed' = settingsServed + 1
    /\ UNCHANGED userSettings
    /\ UNCHANGED <<orderVars, syncVars, schedVars, seedVars>>

\* PUT /settings/:userId: validateParams, validateBody (which puts the
\* schema's value in req.body), then the handler.
PutSettings ==
    /\ settingsServed < MaxSettingsRequests
    /\ \E userId \in UserIdParams, b \in SettingsBodies :
          /\ settingsReq' = [method |-> "PUT", userId |-> userId, body |-> b]
          /\ IF userId <= 0
             THEN /\ settingsRes' = SettingsReply(400, "Parameter validation failed", NoSettings)
                  /\ UNCHANGED userSettings
             ELSE IF SettingsSchemaErrors(b) # {}
             THEN /\ settingsRes' = SettingsReply(400, "Validation failed", NoSettings)
                  /\ UNCHANGED userSettings
             ELSE LET updatedSettings ==
                          UpdatedSettings(CurrentSettings(userSettings, userId),
                                          SettingsSchemaValue(b))
                  IN  /\ userSettings' = [userSettings EXCEPT ![userId] = IsSet(updatedSettings)]
                      /\ settingsRes' = SettingsReply(200, "Settings updated successfully",
                                                      updatedSettings)
    /\ settingsPre' = userSettings
    /\ settingsServed' = settingsServed + 1
    /\ UNCHANGED <<orderVars, syncVars, schedVars, seedVars>>

SettingsNext ==
    \/ GetSettings
    \/ PutSettings

(***************************************************************************)
(* The seed script's id remapping (prisma/seed.ts).                        *)
(***************************************************************************)
\* The files found in seedData, in SEEDING_ORDER; the other files of the
\* order are not there and are skipped.
SeedingOrder == <<"harbors", "trucks", "harborInventory", "orders", "deliveryRoutes">>

\* The model names idMappings may get a table for.
ModelNames ==
    {"fishTypes", "harbors", "drivers", "trucks", "users", "harborInventory", "orders",
     "deliveryRoutes"}

\* The ids of the files: strings; the same string may name a harbor and a truck.
SourceIds == {"A", "B"}
MaxFileRecords == 1

\* idFieldMappings
IdFieldMappings ==
    [harbors |-> <<"harborId">>,
     trucks |-> <<"id", "driverId">>,
     harborInventory |-> <<"harborInventoryId", "harborId", "fishTypeId">>,
     orders |-> <<"orderId", "userId", "pickupHarborId", "assignedTruckId">>,
     deliveryRoutes |-> <<"routeId", "truckId", "startHarborId">>]

\* getOldIdField
OldIdField ==
    [harbors |-> "harborId", trucks |-> "id", harborInventory |-> "harborInventoryId",
     orders |-> "orderId", deliveryRoutes |-> "routeId"]

\* The characters of the field names and of the words they are searched for.
Spelling ==
    ("id" :> <<"i", "d">>)
    @@ ("fishTypeId" :> <<"f", "i", "s", "h", "T", "y", "p", "e", "I", "d">>)
    @@ ("harborId" :> <<"h", "a", "r", "b", "o", "r", "I", "d">>)
    @@ ("driverId" :> <<"d", "r", "i", "v", "e", "r", "I", "d">>)
    @@ ("harborInventoryId" :> <<"h", "a", "r", "b", "o", "r", "I", "n", "v", "e", "n", "t", "o", "r", "y", "I", "d">>)
    @@ ("userId" :> <<"u", "s", "e", "r", "I", "d">>)
    @@ ("orderId" :> <<"o", "r", "d", "e", "r", "I", "d">>)
    @@ ("pickupHarborId" :> <<"p", "i", "c", "k", "u", "p", "H", "a", "r", "b", "o", "r", "I", "d">>)
    @@ ("assignedTruckId" :> <<"a", "s", "s", "i", "g", "n", "e", "d", "T", "r", "u", "c", "k", "I", "d">>)
    @@ ("routeId" :> <<"r", "o", "u", "t", "e", "I", "d">>)
    @@ ("truckId" :> <<"t", "r", "u", "c", "k", "I", "d">>)
    @@ ("startHarborId" :> <<"s", "t", "a", "r", "t", "H", "a", "r", "b", "o", "r", "I", "d">>)
    @@ ("fishType" :> <<"f", "i", "s", "h", "T", "y", "p", "e">>)
    @@ ("harbor" :> <<"h", "a", "r", "b", "o", "r">>)
    @@ ("driver" :> <<"d", "r", "i", "v", "e", "r">>)
    @@ ("truck" :> <<"t", "r", "u", "c", "k">>)
    @@ ("user" :> <<"u", "s", "e", "r">>)
    @@ ("order" :> <<"o", "r", "d", "e", "r">>)
    @@ ("route" :> <<"r", "o", "u", "t", "e">>)

\* String.prototype.includes, case-sensitive.
Includes(field, word) ==
    LET f == Spelling[field]
        w == Spelling[word]
    IN  \E i \in 0..(Len(f) - Len(w)) : SubSeq(f, i + 1, i + Len(w)) = w

\* The reference model of a field: the first word of the chain the field's
\* name includes, else the model of the file.
RefModel(field, modelName) ==
    IF Includes(field, "fishType") THEN "fishTypes"
    ELSE IF Includes(field, "harbor") THEN "harbors"
    ELSE IF Includes(field, "driver") THEN "drivers"
    ELSE IF Includes(field, "truck") THEN "trucks"
    ELSE IF Includes(field, "user") THEN "users"
    ELSE IF Includes(field, "order") THEN "orders"
    ELSE IF Includes(field, "route") THEN "deliveryRoutes"
    ELSE modelName

NoMappings == [m \in ModelNames |-> [o \in SourceIds |-> 0]]

MaxOf(set) == CHOOSE x \in set : \A y \in set : y <= x

\* getOrCreateId: the id and idMappings after the call.
GetOrCreateId(maps, oldId, modelName) ==
    IF maps[modelName][oldId] # 0
    THEN [id |-> maps[modelName][oldId], maps |-> maps]
    ELSE LET existingIds == {maps[modelName][o] : o \in SourceIds} \ {0}
             nextId == IF existingIds # {} THEN MaxOf(existingIds) + 1 ELSE 1
         IN  [id |-> nextId, maps |-> [maps EXCEPT ![modelName][oldId] = nextId]]

\* fieldsToTransform.forEach: the fields of one item, in their order.
RECURSIVE TransformFields(_, _, _, _, _)
TransformFields(maps, item, newIds, modelName, fields) ==
    IF fields = <<>> THEN [ids |-> newIds, maps |-> maps]
    ELSE LET field == Head(fields)
             got == GetOrCreateId(maps, item[field], RefModel(field, modelName))
         IN  TransformFields(got.maps, item, [newIds EXCEPT ![field] = got.id],
                             modelName, Tail(fields))

\* "Remove old ID fields": the old id field becomes id.
Renamed(newIds, modelName) ==
    LET old == OldIdField[modelName] IN
    [f \in (DOMAIN newIds \ {old}) \cup {"id"} |-> IF f = "id" THEN newIds[old] ELSE newIds[f]]

\* transformData: the items of a file, one after the other.
RECURSIVE TransformData(_, _, _)
TransformData(maps, data, modelName) ==
    IF data = <<>> THEN [records |-> <<>>, maps |-> maps]
    ELSE LET item == Head(data)
             one == TransformFields(maps, item, [f \in DOMAIN item |-> 0], modelName,
                                    IdFieldMappings[modelName])
             rest == TransformData(one.maps, Tail(data), modelName)
         IN  [records |-> <<Renamed(one.ids, modelName)>> \o rest.records, maps |-> rest.maps]

\* seedModel's loop: after each create that succeeded, the mapping of the
\* item's old id in the file's own table is set to the id of the created row.
RECURSIVE StoreCreated(_, _, _, _, _)
StoreCreated(maps, data, records, created, modelName) ==
    IF data = <<>> THEN maps
    ELSE StoreCreated(IF Head(created)
                      THEN [maps EXCEPT ![modelName][Head(data)[OldIdField[modelName]]] =
                                            Head(records).id]
                      ELSE maps,
                      Tail(data), Tail(records), Tail(created), modelName)

Items(modelName) ==
    [{IdFieldMappings[modelName][i] : i \in 1..Len(IdFieldMappings[modelName])} -> SourceIds]

Files(modelName) ==
    UNION {[1..n -> Items(modelName)] : n \in 1..MaxFileRecords}

NoFile == [data |-> <<>>, records |-> <<>>, created |-> <<>>]

SeedIdle ==
    /\ idMappings = NoMappings
    /\ seedAt = 0
    /\ seeded = [m \in DOMAIN IdFieldMappings |-> NoFile]

\* seedModel(fileName), for the next file of the order.
SeedModel ==
    /\ seedAt < Len(SeedingOrder)
    /\ LET modelName == SeedingOrder[seedAt + 1] IN
       \E data \in Files(modelName) :
          \E created \in [1..Len(data) -> BOOLEAN] :
             LET transformed == TransformData(idMappings, data, modelName) IN
             /\ idMappings' = StoreCreated(transformed.maps, data, transformed.records,
                                           created, modelName)
             /\ seeded' = [seeded EXCEPT ![modelName] =
                              [data |-> data, records |-> transformed.records,
                               created |-> created]]
    /\ seedAt' = seedAt + 1
    /\ UNCHANGED <<orderVars, syncVars, schedVars, settingsVars>>

\* ---- POST /orders -------------------------------------------------------
\* The database holds the orders the seed script loaded: here one order with
\* one item and its history row.
SeedBody == SchemaValue(JsonParse([BaseRequest EXCEPT !.orderItems = <<UnitItem>>]))
SeedStore ==
    [orders |-> {OrderRow(1, SeedBody, TotalAmount(SeedBody.orderItems))},
     orderItems |-> {ItemRow(1, 1, SeedBody.orderItems[1])},
     statusHistory |-> {HistoryRow(1, 1)}]

OrderInit ==
    /\ SchedIdle
    /\ SettingsIdle
    /\ SeedIdle
    /\ scenario = [job |-> "orders", script |-> "none", overlap |-> FALSE, fishTypes |-> FishDistinct]
    /\ SyncIdle
    /\ clock = 0
    /\ pc = "idle"
    /\ reqBody = BaseRequest
    /\ body = JsonParse(BaseRequest)
    /\ totalAmount = FZero
    /\ tx = NoTx
    /\ orders = SeedStore.orders
    /\ orderItems = SeedStore.orderItems
    /\ statusHistory = SeedStore.statusHistory
    /\ ids = [order |-> 1, item |-> 1, history |-> 1]
    /\ response = NoResponse
    /\ pre = SeedStore
    /\ createCalls = 0
    /\ lastError = "none"
    /\ served = 0

Tick ==
    /\ UNCHANGED <<syncVars, schedVars, settingsVars, seedVars>>
    /\ clock < MaxClock
    /\ clock' = clock + 1
    /\ UNCHANGED <<pc, reqBody, body, totalAmount, tx, orders, orderItems,
                   statusHistory, ids, response, pre, createCalls, lastError, served>>

ReceiveOrder ==
    /\ UNCHANGED <<syncVars, schedVars, settingsVars, seedVars>>
    /\ pc = "idle"
    /\ served < MaxRequests
    /\ \E r \in Requests :
          /\ reqBody' = r
          /\ body' = JsonParse(r)
    /\ pc' = "validateBody"
    /\ pre' = Store
    /\ response' = NoResponse
    /\ createCalls' = 0
    /\ lastError' = "none"
    /\ served' = served + 1
    /\ totalAmount' = FZero
    /\ UNCHANGED <<clock, tx, orders, orderItems, statusHistory, ids>>

\* validateBody(createOrderSchema): abortEarly false, every violation listed.
ValidateBody ==
    /\ UNCHANGED <<syncVars, schedVars, settingsVars, seedVars>>
    /\ pc = "validateBody"
    /\ LET errs == SchemaErrors(body, clock) IN
       IF errs # <<>>
       THEN /\ response' = Reply(400, "Validation failed", ReportAll(errs), NoData)
            /\ pc' = "idle"
            /\ body' = body
       ELSE /\ body' = SchemaValue(body)
            /\ pc' = "controller"
            /\ response' = response
    /\ UNCHANGED <<clock, reqBody, totalAmount, tx, orders, orderItems,
                   statusHistory, ids, pre, createCalls, lastError, served>>

\* OrderController.createOrder up to the first await: the schema again (Joi's
\* default abortEarly: the first violation only), then
\* DatabaseService.createOrder computes totalAmount and opens the transaction.
ControllerCreateOrder ==
    /\ UNCHANGED <<syncVars, schedVars, settingsVars, seedVars>>
    /\ pc = "controller"
    /\ LET errs == SchemaErrors(body, clock) IN
       IF errs # <<>>
       THEN /\ response' = Reply(400, "Validation failed", AbortEarly(errs), NoData)
            /\ pc' = "idle"
            /\ UNCHANGED <<body, totalAmount, createCalls>>
       ELSE /\ body' = SchemaValue(body)
            /\ createCalls' = createCalls + 1
            /\ totalAmount' = TotalAmount(body.orderItems)
            /\ pc' = "txOrder"
            /\ response' = response
    /\ UNCHANGED <<clock, reqBody, tx, orders, orderItems, statusHistory, ids,
                   pre, lastError, served>>

\* tx.order.create
TxOrderCreate ==
    /\ UNCHANGED <<syncVars, schedVars, settingsVars, seedVars>>
    /\ pc = "txOrder"
    /\ \E dbOk \in BOOLEAN :
          IF dbOk /\ FToInt(body.userId) \in Users
          THEN /\ tx' = [tx EXCEPT !.order = <<OrderRow(ids.order + 1, body, totalAmount)>>]
               /\ ids' = [ids EXCEPT !.order = @ + 1]
               /\ pc' = "txItems"
               /\ UNCHANGED <<orders, orderItems, statusHistory, response, lastError>>
          ELSE /\ TxFails("order")
               /\ ids' = IF dbOk THEN [ids EXCEPT !.order = @ + 1] ELSE ids
    /\ UNCHANGED <<clock, reqBody, body, totalAmount, pre, createCalls, served>>

\* Promise.all(orderItems.map(item => tx.orderItem.create(...))): the creates
\* run on the transaction's one connection in the order they were issued.
TxItemCreate ==
    /\ UNCHANGED <<syncVars, schedVars, settingsVars, seedVars>>
    /\ pc = "txItems"
    /\ Len(tx.items) < Len(body.orderItems)
    /\ LET item == body.orderItems[Len(tx.items) + 1] IN
       \E dbOk \in BOOLEAN :
          IF dbOk /\ FToInt(item.fishTypeId) \in FishTypeIds
          THEN /\ tx' = [tx EXCEPT !.items =
                            Append(@, ItemRow(ids.item + 1, tx.order[1].id, item))]
               /\ ids' = [ids EXCEPT !.item = @ + 1]
               /\ pc' = pc
               /\ UNCHANGED <<orders, orderItems, statusHistory, response, lastError>>
          ELSE /\ TxFails("item")
               /\ ids' = IF dbOk THEN [ids EXCEPT !.item = @ + 1] ELSE ids
    /\ UNCHANGED <<clock, reqBody, body, totalAmount, pre, createCalls, served>>

\* tx.orderStatusHistory.create, once Promise.all has resolved
TxHistoryCreate ==
    /\ UNCHANGED <<syncVars, schedVars, settingsVars, seedVars>>
    /\ pc = "txItems"
    /\ AllItemsCreated(tx, body)
    /\ \E dbOk \in BOOLEAN :
          IF dbOk
          THEN /\ tx' = [tx EXCEPT !.history =
                            <<HistoryRow(ids.history + 1, tx.order[1].id)>>]
               /\ ids' = [ids EXCEPT !.history = @ + 1]
               /\ pc' = "txCommit"
               /\ UNCHANGED <<orders, orderItems, statusHistory, response, lastError>>
          ELSE /\ TxFails("history")
               /\ ids' = ids
    /\ UNCHANGED <<clock, reqBody, body, totalAmount, pre, createCalls, served>>

\* The callback returns { order, items }; the transaction commits and the
\* controller answers 201 with the result.
TxCommit ==
    /\ UNCHANGED <<syncVars, schedVars, settingsVars, seedVars>>
    /\ pc = "txCommit"
    /\ \E dbOk \in BOOLEAN :
          IF dbOk
          THEN /\ orders' = Committed(Store, tx).orders
               /\ orderItems' = Committed(Store, tx).orderItems
               /\ statusHistory' = Committed(Store, tx).statusHistory
               /\ response' = Reply(201, "Order created successfully", <<>>,
                                    [order |-> tx.order, items |-> tx.items])
               /\ tx' = NoTx
               /\ pc' = "idle"
               /\ lastError' = lastError
          ELSE TxFails("commit")
    /\ UNCHANGED <<clock, reqBody, body, totalAmount, ids, pre, createCalls, served>>

OrderNext ==
    \/ Tick
    \/ ReceiveOrder
    \/ ValidateBody
    \/ ControllerCreateOrder
    \/ TxOrderCreate
    \/ TxItemCreate
    \/ TxHistoryCreate
    \/ TxCommit

SpecOrder == OrderInit /\ [][OrderNext]_vars

\* ---- Synchronization jobs ------------------------------------------------
Scenario(job, script, overlap, fishTypes) ==
    [job |-> job, script |-> script, overlap |-> overlap, fishTypes |-> fishTypes]

\* A job run once against every shape of response, run again and again, or
\* run by two callers at once; the prediction job also over a shared name.
Scenarios ==
    { Scenario(job, "shapes", FALSE, FishDistinct) : job \in {"weather", "prediction"} }
        \cup { Scenario(job, "reruns", overlap, FishDistinct) :
                  job \in {"weather", "prediction"}, overlap \in BOOLEAN }
        \cup { Scenario("prediction", "shapes", FALSE, FishShared) }
        \cup { Scenario("average", "reruns", FALSE, FishDistinct) }

SyncInit ==
    /\ SchedIdle
    /\ SettingsIdle
    /\ SeedIdle
    /\ scenario \in Scenarios
    /\ SyncIdle
    /\ clock = 0
    /\ pc = "idle"
    /\ reqBody = NoBody
    /\ body = NoBody
    /\ totalAmount = FZero
    /\ tx = NoTx
    /\ orders = SeedStore.orders
    /\ orderItems = SeedStore.orderItems
    /\ statusHistory = SeedStore.statusHistory
    /\ ids = [order |-> 1, item |-> 1, history |-> 1]
    /\ response = NoResponse
    /\ pre = SeedStore
    /\ createCalls = 0
    /\ lastError = "none"
    /\ served = 0

SyncNext ==
    \/ \E s \in WxSlots : StartWeatherRun(s)
    \/ \E s \in WxSlots : FetchLocationWeather(s)
    \/ \E s \in WxSlots : WeatherDay(s)
    \/ \E s \in WxSlots : WeatherUpsert(s)
    \/ \E s \in PredSlots : StartPredictionRun(s)
    \/ \E s \in PredSlots : PredictionSetup(s)
    \/ \E s \in PredSlots : PredictionCall(s)
    \/ \E s \in PredSlots : StorePredictions(s)
    \/ \E s \in PredSlots : PredictionDay(s)
    \/ \E s \in PredSlots : PredictionWrite(s)
    \/ DaysPass

SpecSync == SyncInit /\ [][SyncNext]_vars

\* ---- The process and its scheduler -----------------------------------------
SchedulerInit ==
    /\ scenario = [job |-> "scheduler", script |-> "none", overlap |-> FALSE, fishTypes |-> FishDistinct]
    /\ SyncIdle
    /\ SettingsIdle
    /\ SeedIdle
    /\ \E runtime \in Runtimes : proc = [ProcStart EXCEPT !.runtime = runtime]
    /\ hour \in 0..(HoursPerDay - 1)
    /\ active = [j \in Jobs |-> 0]
    /\ lastStep = NoStep
    /\ clock = 0
    /\ pc = "idle"
    /\ reqBody = NoBody
    /\ body = NoBody
    /\ totalAmount = FZero
    /\ tx = NoTx
    /\ orders = SeedStore.orders
    /\ orderItems = SeedStore.orderItems
    /\ statusHistory = SeedStore.statusHistory
    /\ ids = [order |-> 1, item |-> 1, history |-> 1]
    /\ response = NoResponse
    /\ pre = SeedStore
    /\ createCalls = 0
    /\ lastError = "none"
    /\ served = 0

SchedulerNext ==
    \/ CronTick
    \/ \E j \in Jobs : CallbackSettles(j)
    \/ UnhandledRejection
    \/ UncaughtException
    \/ Connect
    \/ RequestArrives
    \/ ResponseEnds
    \/ Disconnect
    \/ GracefulShutdown
    \/ ServerClosed

SpecScheduler == SchedulerInit /\ [][SchedulerNext]_vars

\* ---- The settings routes -------------------------------------------------------
SettingsInit ==
    /\ scenario = [job |-> "settings", script |-> "none", overlap |-> FALSE, fishTypes |-> FishDistinct]
    /\ SyncIdle
    /\ SchedIdle
    /\ SettingsIdle
    /\ SeedIdle
    /\ clock = 0
    /\ pc = "idle"
    /\ reqBody = NoBody
    /\ body = NoBody
    /\ totalAmount = FZero
    /\ tx = NoTx
    /\ orders = SeedStore.orders
    /\ orderItems = SeedStore.orderItems
    /\ statusHistory = SeedStore.statusHistory
    /\ ids = [order |-> 1, item |-> 1, history |-> 1]
    /\ response = NoResponse
    /\ pre = SeedStore
    /\ createCalls = 0
    /\ lastError = "none"
    /\ served = 0

SpecSettings == SettingsInit /\ [][SettingsNext]_vars

\* ---- The seed script ------------------------------------------------------------
SeedInit ==
    /\ scenario = [job |-> "seed", script |-> "none", overlap |-> FALSE, fishTypes |-> FishDistinct]
    /\ SyncIdle
    /\ SchedIdle
    /\ SettingsIdle
    /\ SeedIdle
    /\ clock = 0
    /\ pc = "idle"
    /\ reqBody = NoBody
    /\ body = NoBody
    /\ totalAmount = FZero
    /\ tx = NoTx
    /\ orders = {}
    /\ orderItems = {}
    /\ statusHistory = {}
    /\ ids = [order |-> 0, item |-> 0, history |-> 0]
    /\ response = NoResponse
    /\ pre = [orders |-> {}, orderItems |-> {}, statusHistory |-> {}]
    /\ createCalls = 0
    /\ lastError = "none"
    /\ served = 0

SeedNext == SeedModel

SpecSeed == SeedInit /\ [][SeedNext]_vars


(***************************************************************************)
(* Properties of order ingestion.                                          *)
(***************************************************************************)
Created == response.data.order[1]
CreatedItems == {r \in orderItems : r.orderId = Created.id}

RECURSIVE SumSubtotals(_)
SumSubtotals(rows) ==
    IF rows = {} THEN DInt(0)
    ELSE LET r == CHOOSE x \in rows : TRUE
         IN  DAdd(r.subtotal, SumSubtotals(rows \ {r}))

\* C1: after a successful createOrder the persisted order's totalAmount is
\* the sum of the subtotals of its persisted items, and each subtotal is that
\* item's quantityKg times its unitPrice.
C1_TotalIsSumOfSubtotals ==
    response.status = 201 =>
        /\ Created \in orders
        /\ Created.totalAmount = SumSubtotals(CreatedItems)
        /\ \A r \in CreatedItems : r.subtotal = DMul(r.quantityKg, r.unitPrice)

\* C2: when a step of the createOrder transaction fails, the committed rows
\* are those of before the attempt and nothing of the attempt stays staged.
C2_FailedAttemptLeavesNoRows ==
    response.status = 500 => Store = pre /\ tx = NoTx

C2_Witness ==
    /\ response.status = 500
    /\ lastError = "history"
    /\ pre.orders # {}

\* C3: a successful createOrder commits one pending order, one item row per
\* input item with the input's fishTypeId, quantityKg and unitPrice, one
\* history row (pending, "Order created"), and returns that order and
\* exactly those item rows.
C3_CommitsOrderItemsHistory ==
    response.status = 201 =>
        LET in == reqBody.orderItems
            its == response.data.items
        IN  /\ Len(response.data.order) = 1
            /\ orders \ pre.orders = {Created}
            /\ Created.status = "pending"
            /\ Len(its) = Len(in)
            /\ orderItems \ pre.orderItems = {its[i] : i \in 1..Len(its)}
            /\ Cardinality(orderItems \ pre.orderItems) = Len(in)
            /\ \A i \in 1..Len(its) :
                  /\ its[i].orderId = Created.id
                  /\ DInt(its[i].fishTypeId) = DNorm(in[i].fishTypeId.n, in[i].fishTypeId.k)
                  /\ its[i].quantityKg = DNorm(in[i].quantityKg.n, in[i].quantityKg.k)
                  /\ its[i].unitPrice = DNorm(in[i].unitPrice.n, in[i].unitPrice.k)
            /\ \E h \in statusHistory :
                  /\ statusHistory \ pre.statusHistory = {h}
                  /\ h.orderId = Created.id
                  /\ h.status = "pending"
                  /\ h.notes = "Order created"

C3_Witness ==
    /\ response.status = 201
    /\ Len(response.data.items) = 2
    /\ response.data.items[1].quantityKg = Dec(1, 1)
    /\ pre.orders # {}

\* The constraints C10 lists, on the parsed body, apart from the delivery date.
ViolatesListedConstraint(b) ==
    \/ FLt(b.deliveryLatitude, FNeg(FInt(90))) \/ FLt(FInt(90), b.deliveryLatitude)
    \/ FLt(b.deliveryLongitude, FNeg(FInt(180))) \/ FLt(FInt(180), b.deliveryLongitude)
    \/ b.deliveryAddress < 10 \/ b.deliveryAddress > 500
    \/ Len(b.orderItems) < 1 \/ Len(b.orderItems) > 10
    \/ \E i \in 1..Len(b.orderItems) :
          \/ ~FLt(FZero, b.orderItems[i].quantityKg)
          \/ FLt(FInt(1000), b.orderItems[i].quantityKg)
          \/ ~FLt(FZero, b.orderItems[i].unitPrice)
          \/ ~FLt(FZero, b.orderItems[i].fishTypeId)

\* C10: a request that violates a listed constraint is answered 400, and
\* DatabaseService.createOrder is never called for it; a 400 leaves every
\* table as it was.
C10_InvalidRejectedBeforePersistence ==
    /\ [](response.status = 400 => createCalls = 0 /\ Store = pre /\ tx = NoTx)
    /\ [](ViolatesListedConstraint(JsonParse(reqBody)) =>
            /\ createCalls = 0
            /\ pc \in {"idle", "validateBody"}
            /\ response.status \in {0, 400})
    /\ [][createCalls' > createCalls => reqBody.deliveryDate >= clock]_vars

C10_Witness ==
    /\ response.status = 400
    /\ pre.orders # {}
    /\ Len(reqBody.orderItems) = 1
    /\ FLt(FInt(1000), JsonParse(reqBody).orderItems[1].quantityKg)

\* ---- Properties of the weather job -----------------------------------------
Upto(n) == [i \in 1..n |-> i]

\* C4: in every run of the weather job the locations are attempted in list
\* order, each exactly once whatever happened to the earlier ones (HTTP
\* error, timeout, unusable response, storage error); the run never raises to
\* its caller, and a run that has returned has attempted every location.
C4_EveryLocationAttemptedOnce ==
    \A s \in WxSlots :
        /\ wx[s].pc # "raised"
        /\ wx[s].pc = "fetch" => wx[s].attempts = Upto(wx[s].loc - 1)
        /\ wx[s].pc \in {"day", "write"} => wx[s].attempts = Upto(wx[s].loc)
        /\ wx[s].pc = "returned" => wx[s].attempts = Upto(NumLocations)

\* A run that returned after its first location failed and a later one was stored.
C4_Witness ==
    \E s \in WxSlots :
        /\ wx[s].pc = "returned"
        /\ wx[s].failed # <<>>
        /\ wx[s].failed[1] = 1
        /\ wx[s].attempts = Upto(NumLocations)
        /\ \E w \in wx[s].written : w.latitude = Locations[NumLocations].lat

\* ---- Properties of the synchronization jobs ---------------------------------
KeysOf(writes) == {w.key : w \in writes}
ActiveIds == {f.id : f \in {g \in scenario.fishTypes : g.isActive}}
Range(seq) == {seq[i] : i \in 1..Len(seq)}

\* C5: in a run of the prediction job, a fish type whose response was a
\* non-success or lacked one of the two price series gets no
\* DailyPricePrediction row in that run, and a run that reaches its end has
\* processed every active fish type.
C5_RejectedFishTypeGetsNoRow ==
    /\ \A i \in 1..Len(predLog) :
          \A f \in predLog[i].rejected :
             \A w \in predLog[i].writes : w.key.fishTypeId # f
    /\ \A s \in PredSlots :
          pred[s].pc = "returned" /\ pred[s].run > 0 => Range(pred[s].calls) = ActiveIds

\* C6: when two weather runs follow one another and write the same locations
\* and dates, the second leaves as many WeatherForecast rows as the first
\* did, and once it has returned each of these rows holds the temperature,
\* wind speed, precipitation and humidity the second run wrote.
C6_SecondRunOverwrites ==
    ~scenario.overlap =>
        \A i \in 1..(Len(wxLog) - 1) :
            (/\ wxLog[i].rows >= 0
             /\ wxLog[i + 1].rows >= 0
             /\ KeysOf(wxLog[i].writes) = KeysOf(wxLog[i + 1].writes))
            => /\ wxLog[i + 1].rows = wxLog[i].rows
               /\ i + 1 = Len(wxLog) =>
                     \A w \in wxLog[i + 1].writes :
                        \E row \in forecasts :
                           /\ RowsAt(forecasts, w.key) = {row}
                           /\ row.temperature2mMean = w.vals.temperature2mMean
                           /\ row.windSpeed10mMax = w.vals.windSpeed10mMax
                           /\ row.precipitationSum = w.vals.precipitationSum
                           /\ row.relativeHumidity2mMean = w.vals.relativeHumidity2mMean

\* Two runs, one after the other, wrote every location and date, the second
\* with other readings than the first.
C6_Witness ==
    /\ ~scenario.overlap
    /\ Len(wxLog) = 2
    /\ wxLog[1].rows >= 0 /\ wxLog[2].rows >= 0
    /\ Cardinality(wxLog[1].writes) = 2 * NumLocations
    /\ KeysOf(wxLog[1].writes) = KeysOf(wxLog[2].writes)
    /\ wxLog[1].writes \cap wxLog[2].writes = {}

\* C7: in every reachable state, whatever the interleaving of runs (a
\* scheduled weather run with a manual refresh, or two prediction runs),
\* no two WeatherForecast rows share (forecastDate, latitude, longitude) and
\* no two DailyPricePrediction rows share (fishTypeId, predictionDate).
C7_OneRowPerCompositeKey ==
    /\ \A r1, r2 \in forecasts : KeyOf(r1) = KeyOf(r2) => r1 = r2
    /\ \A p1, p2 \in predictions : PredKeyOf(p1) = PredKeyOf(p2) => p1 = p2

\* A weather run is about to insert a key that the overlapping run has
\* inserted since this run looked it up.
C7_Witness ==
    /\ scenario.overlap
    /\ \E s \in WxSlots :
          /\ wx[s].pc = "write"
          /\ wx[s].path = "insert"
          /\ RowsAt(forecasts, WxKey(DateOf(wx[s].resp.time.v[wx[s].day]),
                                     Locations[wx[s].loc])) # {}

\* ---- Properties of the process ----------------------------------------------
\* Whenever the clock reaches an hour while the process lives, every cron
\* task due at that hour starts a callback.
FiresWhenDue ==
    [][hour' # hour => \A j \in Jobs : Due(j, hour') => active'[j] = active[j] + 1]_vars

\* C8: a job that raises inside a scheduled run is caught by its callback,
\* which logs the failure; the process stays alive with both cron tasks
\* registered, and at every later scheduled hour the due jobs fire.
C8_ScheduledFailureIsCaught ==
    /\ [](lastStep.kind = "settle" /\ lastStep.outcome = "rejected" =>
             /\ proc.alive
             /\ proc.tasks = Jobs
             /\ ~proc.rejection
             /\ proc.logged = CallbackCatch(ProcStart, lastStep.job).logged)
    /\ FiresWhenDue

\* The prediction job has just raised inside a scheduled run, while another
\* run of it and a weather run are in progress.
C8_Witness ==
    /\ lastStep = Step("settle", "prediction", "rejected")
    /\ active["prediction"] = 1
    /\ active["weather"] = 1

\* C9 as stated: after either process-level error (an unhandled rejection or
\* an uncaught exception) the error is logged and the process is alive.
C9_ProcessErrorDoesNotCrash ==
    lastStep.kind \in {"unhandledRejection", "uncaughtException"} =>
        proc.alive /\ proc.logged.level = "error"

\* C9, amended: an unhandled rejection is logged and leaves the process
\* alive, and the scheduled runs go on; an uncaught exception is logged and
\* then ends the process with exit code 1, after which nothing runs.
C9_RejectionLoggedExceptionExits ==
    /\ [](lastStep.kind = "unhandledRejection" =>
             proc.alive /\ proc.tasks = Jobs /\ proc.logged = Log("error", "Unhandled Rejection"))
    /\ [](lastStep.kind = "uncaughtException" =>
             /\ ~proc.alive
             /\ proc.exitCode = ExitFailure
             /\ proc.logged = Log("error", "Uncaught Exception"))
    /\ FiresWhenDue
    /\ [][~proc.alive => UNCHANGED <<hour, active>>]_vars

\* An uncaught exception has ended the process while a callback was running.
C9_Witness ==
    /\ lastStep.kind = "uncaughtException"
    /\ ~proc.alive
    /\ active["weather"] > 0

\* ---- Further properties of POST /orders --------------------------------------
\* C11: whenever POST /orders answers with a validation error, from the
\* validateBody middleware or from the controller's own validation, the
\* errors of the answer are all the violations of the schema by the body
\* validated, at the time of the validation.
C11_AllViolationsReported ==
    [][response'.status = 400 /\ response # response'
          => response'.errors = SchemaErrors(body, clock)]_vars

\* A request that breaks three rules (past date, short address, no items) was
\* answered with three errors.
C11_Witness ==
    /\ response.status = 400
    /\ Len(response.errors) = 3
    /\ {response.errors[i].field : i \in 1..3} = {"deliveryDate", "deliveryAddress", "orderItems"}

\* C12: when the transaction of a validated order fails, at whichever step
\* and for whichever cause, the answer is status 500 with the message
\* 'Failed to create order' and nothing else, and DatabaseService.createOrder
\* has been called exactly once for the request and is not called again.
C12_GenericFailureNoRetry ==
    /\ [](createCalls <= 1)
    /\ [](response.status = 500
            => /\ response = Reply(500, "Failed to create order", <<>>, NoData)
               /\ createCalls = 1
               /\ pc = "idle")
    /\ [][lastError' # lastError /\ lastError' # "none"
            => response'.status = 500 /\ createCalls' = createCalls]_vars

\* The order with an unknown fish type failed at an item insert and was
\* answered 500.
C12_Witness ==
    /\ response.status = 500
    /\ lastError = "item"
    /\ createCalls = 1
    /\ \E i \in 1..Len(body.orderItems) :
          FToInt(body.orderItems[i].fishTypeId) \notin FishTypeIds

\* C13: inside the transaction an OrderItem insert or the OrderStatusHistory
\* insert happens only once the Order insert has completed, and the history
\* insert only once every item insert has completed; and among the committed
\* rows every OrderItem and every OrderStatusHistory row references an
\* Order row.
C13_OrderBeforeItemsBeforeHistory ==
    /\ [][tx' # NoTx /\ tx'.items # tx.items
            => Len(tx.order) = 1 /\ tx.history = <<>>]_vars
    /\ [][tx' # NoTx /\ tx'.history # tx.history
            => Len(tx.order) = 1 /\ Len(tx.items) = Len(body.orderItems)]_vars
    /\ [](\A row \in orderItems \cup statusHistory :
             \E o \in orders : o.id = row.orderId)

\* An order of two items was committed: its two item rows and its history
\* row reference it.
C13_Witness ==
    /\ response.status = 201
    /\ \E o \in orders \ pre.orders :
          /\ Cardinality({it \in orderItems : it.orderId = o.id}) = 2
          /\ \E h \in statusHistory : h.orderId = o.id

\* ---- Further properties of the weather job ----------------------------------
\* The keys of a set that belong to the i-th location.
KeysAtLocation(keys, i) ==
    {k \in keys : k.latitude = Locations[i].lat /\ k.longitude = Locations[i].lng}

\* C14: a response without a daily object, without a time array or with an
\* empty time array never reaches the loop over the days; the location it was
\* received for gets no row created or updated by this run, its failure is on
\* the log, the run goes on with the next location (or returns after the last
\* one) and never raises.
C14_UnusableResponseSkipsLocation ==
    /\ [](\A s \in WxSlots :
            /\ wx[s].pc # "raised"
            /\ Len(wx[s].causes) = Len(wx[s].failed)
            /\ \A i \in 1..Len(wx[s].failed) :
                  wx[s].causes[i] = "No weather data received"
                     => /\ KeysAtLocation(wx[s].written, wx[s].failed[i]) = {}
                        /\ wx[s].loc > wx[s].failed[i] \/ wx[s].pc = "returned")
    /\ [][\A s \in WxSlots :
            wx[s].pc = "fetch" /\ wx'[s].pc = "day"
               => /\ wx'[s].resp.hasDaily
                  /\ wx'[s].resp.time.present
                  /\ Len(wx'[s].resp.time.v) > 0]_vars

\* A run returned: its first location answered without usable data and has
\* no row, the next location was stored.
C14_Witness ==
    \E s \in WxSlots :
        /\ wx[s].pc = "returned"
        /\ wx[s].failed = <<1>>
        /\ wx[s].causes = <<"No weather data received">>
        /\ KeysAtLocation(wx[s].written, 1) = {}
        /\ KeysAtLocation(wx[s].written, 2) # {}

\* The days of a response before index `day` that carry a date.
DatedDays(resp, day) ==
    {d \in 1..Len(resp.time.v) :
        d < day /\ resp.time.v[d] # "" /\ DateOf(resp.time.v[d]) # InvalidDate}

\* C15: while a run works through the days of a location, the rows it has
\* written for the location are those of every day passed so far that
\* carries a date: a day without a date or with one that does not parse adds
\* no row and stops neither the days after it nor the location.
C15_BadDaySkippedOthersStored ==
    /\ [](\A s \in WxSlots :
            wx[s].pc \in {"day", "write"}
               => KeysAtLocation(wx[s].written, wx[s].loc)
                     = {WxKey(DateOf(wx[s].resp.time.v[d]), Locations[wx[s].loc]) :
                           d \in DatedDays(wx[s].resp, wx[s].day)})
    /\ [][\A s \in WxSlots :
            /\ wx[s].pc = "day"
            /\ wx'[s] # wx[s]
            /\ wx[s].day <= Len(wx[s].resp.time.v)
            /\ wx[s].day \notin DatedDays(wx[s].resp, wx[s].day + 1)
            => /\ wx'[s] = [wx[s] EXCEPT !.day = @ + 1]
               /\ forecasts' = forecasts]_vars

\* The first day of the response had a date that does not parse; the loop
\* reached the end of the days and the second day is stored.
C15_Witness ==
    \E s \in WxSlots :
        /\ wx[s].pc = "day"
        /\ wx[s].day = 3
        /\ wx[s].resp.time.v = <<"soon", Day2>>
        /\ KeysAtLocation(wx[s].written, wx[s].loc) = {WxKey(2, Locations[wx[s].loc])}

\* The value stored for a field agrees with the response: the entry of the
\* series at the day when the response carries one, else the fallback.
StoredAs(value, series, i, fallback) ==
    IF series.present /\ i <= Len(series.v) /\ series.v[i] # Undefined
    THEN value = series.v[i]
    ELSE value = fallback

\* C16: when an upsert of a day succeeds, the row at the day's key holds, for
\* each of the four fields on its own, the entry of the response when the
\* response carries one (series present, long enough, entry not undefined)
\* and the field's fallback (27, 15, 0, 80) otherwise; and a day with a date
\* reaches the upsert whichever series are present.
C16_AbsentFieldsDefaulted ==
    /\ [][\A s \in WxSlots :
            wx[s].pc = "write" /\ wx'[s].pc = "day"
            => LET r == wx[s]
                   key == WxKey(DateOf(r.resp.time.v[r.day]), Locations[r.loc])
               IN  /\ RowsAt(forecasts', key) # {}
                   /\ \A row \in RowsAt(forecasts', key) :
                         /\ StoredAs(row.temperature2mMean, r.resp.temperature_2m_mean,
                                     r.day, 27)
                         /\ StoredAs(row.windSpeed10mMax, r.resp.wind_speed_10m_max,
                                     r.day, 15)
                         /\ StoredAs(row.precipitationSum, r.resp.precipitation_sum,
                                     r.day, 0)
                         /\ StoredAs(row.relativeHumidity2mMean,
                                     r.resp.relative_humidity_2m_mean, r.day, 80)]_vars
    /\ [][\A s \in WxSlots :
            /\ wx[s].pc = "day"
            /\ wx'[s] # wx[s]
            /\ wx[s].day \in DatedDays(wx[s].resp, wx[s].day + 1)
            => wx'[s].pc = "write" /\ wx'[s].day = wx[s].day]_vars

\* A response carrying only the temperature series (a 0) and the humidity
\* series was stored: 0 and 70 as received, 15 and 0 by default.
C16_Witness ==
    \E s \in WxSlots :
        /\ wx[s].pc = "day"
        /\ wx[s].day = 2
        /\ wx[s].resp.temperature_2m_mean = Some(<<0>>)
        /\ ~wx[s].resp.wind_speed_10m_max.present
        /\ ~wx[s].resp.precipitation_sum.present
        /\ wx[s].resp.relative_humidity_2m_mean = Some(<<70>>)
        /\ \E row \in RowsAt(forecasts, WxKey(1, Locations[wx[s].loc])) :
              /\ row.temperature2mMean = 0
              /\ row.windSpeed10mMax = 15
              /\ row.precipitationSum = 0
              /\ row.relativeHumidity2mMean = 70

\* ---- Properties of the weather average --------------------------------------
\* The number x is the quotient sum / count, to the precision of a number.
IsMean(x, sum, count) ==
    IF x.e >= 0
    THEN Abs(x.m * Pow2(x.e) * count - sum) * Pow2(MantBits) <= Abs(sum)
    ELSE Abs(x.m * count - sum * Pow2(-x.e)) * Pow2(MantBits) <= Abs(sum) * Pow2(-x.e)

\* The value returned for a metric: the mean of the column over `rows`, or
\* the fallback when there is no row.
MeanOrFallback(x, rows, field, fallback) ==
    IF rows = {} THEN x = FInt(fallback)
    ELSE IsMean(x, SumOver(rows, field), Cardinality(rows))

\* C17: the weather average a prediction run obtains is, for each metric, the
\* mean of the metric over the rows created within the seven days before
\* the call, whenever they were last updated, and 27, 15, 2 and 80 when no
\* row was created within these seven days.
C17_AverageOverRowsCreatedInWindow ==
    [][\A s \in PredSlots :
          pred[s].pc = "setup" /\ pred'[s].pc \in {"call", "returned"}
          => LET avg == predLog'[pred[s].run].weather
                 rows == {r \in forecasts : clock - r.createdAt <= 7}
             IN  /\ MeanOrFallback(avg.temperature_2m_mean, rows, "temperature2mMean", 27)
                 /\ MeanOrFallback(avg.wind_speed_10m_max, rows, "windSpeed10mMax", 15)
                 /\ MeanOrFallback(avg.precipitation_sum, rows, "precipitationSum", 2)
                 /\ MeanOrFallback(avg.relative_humidity_2m_mean, rows,
                                   "relativeHumidity2mMean", 80)]_vars

\* Eight days after the rows were created, and after a second run updated
\* them all, the average obtained is the fallback of each metric.
C17_Witness ==
    /\ clock = 8
    /\ forecasts # {}
    /\ \A r \in forecasts : r.createdAt = 0 /\ r.temperature2mMean = 26
    /\ \A s \in WxSlots : wx[s].pc \in {"idle", "returned"}
    /\ pred["cron"].pc = "call"
    /\ predLog[1].weather =
          [temperature_2m_mean |-> FInt(27), wind_speed_10m_max |-> FInt(15),
           precipitation_sum |-> FInt(2), relative_humidity_2m_mean |-> FInt(80)]

\* ---- Further properties of the prediction job -------------------------------
\* C18: in a run of the prediction job past its setup, no fish type is called
\* twice and none that is not active is called, a run that returned has
\* called every active fish type, and every request of the run carries the
\* name of its fish type, prediction_days = 7, the weather average the run
\* obtained at its setup, and the same ocean and economic data.
C18_OneCallPerActiveFishType ==
    \A s \in PredSlots :
        LET r == pred[s] IN
        /\ Len(r.requests) = Len(r.calls)
        /\ \A i, j \in 1..Len(r.calls) : r.calls[i] = r.calls[j] => i = j
        /\ Range(r.calls) \subseteq ActiveIds
        /\ r.pc = "returned" /\ r.run > 0 => Range(r.calls) = ActiveIds
        /\ \A i \in 1..Len(r.requests) :
              /\ \E f \in scenario.fishTypes :
                    f.id = r.calls[i] /\ r.requests[i].fish_type = f.fishName
              /\ r.requests[i].prediction_days = 7
              /\ r.requests[i].weather_data = predLog[r.run].weather
              /\ r.requests[i].ocean_data = r.requests[1].ocean_data
              /\ r.requests[i].economic_data = r.requests[1].economic_data

\* A run returned after two calls, for the two active fish types, both with
\* the average of the stored weather.
C18_Witness ==
    \E s \in PredSlots :
        /\ pred[s].pc = "returned"
        /\ Len(pred[s].requests) = 2
        /\ {pred[s].requests[i].fish_type : i \in 1..2} = {"tuna", "seer"}
        /\ pred[s].requests[1].weather_data.temperature_2m_mean = FInt(25)
        /\ pred[s].requests[2].weather_data.temperature_2m_mean = FInt(25)
        /\ \E row \in forecasts : row.temperature2mMean # 25

\* The horizon of a response: the greatest n that is at most the length of
\* each series and at most 7.
IsHorizon(n, resp) ==
    /\ n <= Len(resp.avg_ws_price.v) /\ n <= Len(resp.avg_rt_price.v) /\ n <= 7
    /\ n = Len(resp.avg_ws_price.v) \/ n = Len(resp.avg_rt_price.v) \/ n = 7

\* The days before `day` at which the response defines both prices.
PricedDays(resp, day) ==
    {d \in 1..(day - 1) :
        /\ resp.avg_rt_price.v[d] \notin {NoPrice, NullPrice}
        /\ resp.avg_ws_price.v[d] \notin {NoPrice, NullPrice}}

\* Every entry of the two series of the response is a price.
AllPriced(resp) ==
    /\ \A i \in 1..Len(resp.avg_ws_price.v) : resp.avg_ws_price.v[i] \notin {NoPrice, NullPrice}
    /\ \A i \in 1..Len(resp.avg_rt_price.v) : resp.avg_rt_price.v[i] \notin {NoPrice, NullPrice}

\* C19: while the prices of a response are stored, every day index passed
\* so far with both prices has its row, written by this run under the date
\* of today plus the index; no row is written past the horizon; and the
\* loop over a response whose prices are all defined ends, without failure,
\* exactly after the last index of the horizon, min(wholesale length, retail
\* length, 7) - 1.
C19_RowsUpToHorizon ==
    /\ [](\A s \in PredSlots :
            pred[s].pc \in {"day", "write"}
            => \A d \in PricedDays(pred[s].resp, pred[s].day) :
                  /\ PredKey(pred[s].target, clock + d - 1) \in KeysOf(predLog[pred[s].run].writes)
                  /\ PredRowsAt(predictions, PredKey(pred[s].target, clock + d - 1)) # {})
    /\ [][\A s \in PredSlots :
            pred[s].pc = "write" /\ pred'[s].pc = "day"
            => \E n \in 0..7 : IsHorizon(n, pred[s].resp) /\ pred[s].day <= n]_vars
    /\ [][\A s \in PredSlots :
            /\ pred[s].pc = "day"
            /\ pred'[s].pc \in {"call", "returned"}
            /\ AllPriced(pred[s].resp)
            => /\ IsHorizon(pred[s].day - 1, pred[s].resp)
               /\ pred'[s].failed = pred[s].failed]_vars

\* Ten wholesale and five retail prices: at the end of the loop the fish
\* type has five rows, for today and the four days after.
C19_Witness ==
    \E s \in PredSlots :
        /\ pred[s].pc = "day"
        /\ Len(pred[s].resp.avg_ws_price.v) = 10
        /\ Len(pred[s].resp.avg_rt_price.v) = 5
        /\ pred[s].day = 6
        /\ {r.predictionDate : r \in {x \in predictions : x.fishTypeId = pred[s].target}}
              = {clock + i : i \in 0..4}

C21_RowPerFishTypeAndDate ==
    /\ [][\A s \in PredSlots :
            pred[s].pc = "write" /\ pred'[s].pc = "day"
            => LET r == pred[s]
                   key == PredKey(r.target, r.today.day + (r.day - 1))
               IN  /\ Cardinality(PredRowsAt(predictions', key)) = 1
                   /\ \A row \in PredRowsAt(predictions', key) :
                         /\ ParseNum(row.retailPrice) = r.resp.avg_rt_price.v[r.day]
                         /\ ParseNum(row.wholesalePrice) = r.resp.avg_ws_price.v[r.day]
                         /\ row.confidence = Dec(95, 2)
                   /\ PredRowsAt(predictions, key) # {}
                         => Cardinality(predictions') = Cardinality(predictions)]_vars
    /\ [](\A p1, p2 \in predictions :
             p1.fishTypeId = p2.fishTypeId /\ p1.predictionDate = p2.predictionDate
                => p1 = p2)

\* The second run of the day, at another time of day, has just updated
\* the row of today of a fish type, written by the first run: the row holds
\* the prices of the second run and the fish type has no other row of today.
C21_Witness ==
    /\ scenario.script = "reruns" /\ ~scenario.overlap
    /\ Len(predLog) = 2
    /\ pred["cron"].pc = "day"
    /\ pred["cron"].day = 2
    /\ pred["cron"].today.time = "09:30"
    /\ \E w \in predLog[1].writes : w.key = PredKey(pred["cron"].target, clock)
    /\ \E row \in predictions :
          /\ {row} = {x \in predictions :
                         x.fishTypeId = pred["cron"].target /\ x.predictionDate = clock}
          /\ row.wholesalePrice = PriceDecimal[PxSeriesB.avg_ws_price.v[1]]
          /\ row.retailPrice = PriceDecimal[PxSeriesB.avg_rt_price.v[1]]

\* ---- Order of the units of a run ----------------------------------------------
\* Where unit u stands in the processing order q.
Position(q, u) == CHOOSE i \in 1..Len(q) : q[i] = u

\* What stands under `key` once the units of a run have written what they
\* wrote, in the order q: the write of the unit that comes last in q.
LastWrite(writes, q, key) ==
    LET atKey == {w \in writes : w.key = key} IN
    CHOOSE w \in atKey : \A v \in atKey : Position(q, v.unit) <= Position(q, w.unit)

\* C22: when a run has returned, alone, every key it wrote holds what it
\* would hold had the units been processed in any other order, each unit
\* writing what it wrote in this run: for the weather job over the orders of
\* the locations, for the prediction job over the orders of the active fish
\* types.
C22_OrderOfUnitsIsImmaterial ==
    /\ \A s \in WxSlots :
          ~scenario.overlap /\ wx[s].pc = "returned" /\ wx[s].run > 0
          => \A q \in Orderings(1..NumLocations) :
                \A key \in KeysOf(wxLog[wx[s].run].writes) :
                   \A row \in RowsAt(forecasts, key) :
                      LET vals == LastWrite(wxLog[wx[s].run].writes, q, key).vals IN
                      /\ row.temperature2mMean = vals.temperature2mMean
                      /\ row.windSpeed10mMax = vals.windSpeed10mMax
                      /\ row.precipitationSum = vals.precipitationSum
                      /\ row.relativeHumidity2mMean = vals.relativeHumidity2mMean
    /\ \A s \in PredSlots :
          ~scenario.overlap /\ pred[s].pc = "returned" /\ pred[s].run > 0
          => \A q \in Orderings(ActiveIds) :
                \A key \in KeysOf(predLog[pred[s].run].writes) :
                   \A row \in PredRowsAt(predictions, key) :
                      LET vals == LastWrite(predLog[pred[s].run].writes, q, key).vals IN
                      /\ row.retailPrice = vals.retailPrice
                      /\ row.wholesalePrice = vals.wholesalePrice
                      /\ row.confidence = vals.confidence

C24_OrderRowsOnlyAdded ==
    [][/\ orders \subseteq orders'
       /\ orderItems \subseteq orderItems'
       /\ statusHistory \subseteq statusHistory']_vars

\* A second order has been committed next to the seeded one, whose order,
\* item and history rows stand as they were loaded.
C24_Witness ==
    /\ response.status = 201
    /\ Created \notin SeedStore.orders
    /\ SeedStore.orders \subseteq orders
    /\ SeedStore.orderItems \subseteq orderItems
    /\ SeedStore.statusHistory \subseteq statusHistory
    /\ Cardinality(statusHistory) >= 2

\* ---- Settings --------------------------------------------------------------------
\* The settings a PUT with body b must leave for a user whose settings were
\* `previous`: the keys b supplies at their new values, every other key as it
\* was.
IsMergeOf(now, previous, b) ==
    \A object \in DOMAIN now :
       \A k \in DOMAIN now[object] :
          now[object][k] = IF b[object].present /\ b[object].keys[k].present
                           THEN b[object].keys[k]
                           ELSE previous[object][k]

\* C25: after a PUT that was answered 200 the user's settings are the merge
\* of the previous ones (the defaults when nothing was stored) with the body
\* as sent, the answer carries them and the other users' settings are as
\* before; a GET answers the settings the last PUT left, or the defaults.
C25_PutIsMergeUpdate ==
    /\ settingsReq.method = "PUT" /\ settingsRes.status = 200
       => LET u == settingsReq.userId IN
          /\ IsMergeOf(userSettings[u].value, CurrentSettings(settingsPre, u), settingsReq.body)
          /\ settingsRes.data = userSettings[u].value
          /\ \A o \in DOMAIN userSettings : o # u => userSettings[o] = settingsPre[o]
    /\ settingsReq.method = "GET" /\ settingsRes.status = 200
       => /\ settingsRes.data = CurrentSettings(userSettings, settingsReq.userId)
          /\ userSettings = settingsPre

\* ---- The fish type a prediction is stored under ---------------------------------
\* C26: every DailyPricePrediction row a run writes while it processes a
\* fish type is written under that fish type's id, and stands under it.
C26_RowsCarryProcessedFishType ==
    \A i \in 1..Len(predLog) :
       \A w \in predLog[i].writes :
          /\ w.key.fishTypeId = w.unit
          /\ \E row \in PredRowsAt(predictions, w.key) : row.fishTypeId = w.unit

\* ---- A unit's writes are not atomic ----------------------------------------------
\* The writes a run has logged for one of its units.
WritesOfUnit(writes, unit) == {w \in writes : w.unit = unit}

\* C27: when the upsert of day index i throws, for a location of the weather
\* job or a fish type of the prediction job, no row leaves the table, the
\* rows the unit wrote are those of indices below i and they stand (with the
\* values written, when no other run is writing), the unit is logged as
\* failed, and the job is at the next unit or, after the last, has returned;
\* a unit's rows are written only while the job is at that unit.
C27_FailedUpsertKeepsEarlierRows ==
    /\ [][\A s \in WxSlots :
            wx[s].pc = "write" /\ wx'[s].pc \notin {"write", "day"}
            => LET r == wx[s]
                   mine == WritesOfUnit(wxLog'[r.run].writes, r.loc)
               IN  /\ forecasts \subseteq forecasts'
                   /\ KeysOf(mine) \subseteq
                         {WxKey(DateOf(r.resp.time.v[d]), Locations[r.loc]) : d \in 1..(r.day - 1)}
                   /\ \A w \in mine :
                         \E row \in RowsAt(forecasts', w.key) :
                            ~scenario.overlap =>
                               /\ row.temperature2mMean = w.vals.temperature2mMean
                               /\ row.windSpeed10mMax = w.vals.windSpeed10mMax
                               /\ row.precipitationSum = w.vals.precipitationSum
                               /\ row.relativeHumidity2mMean = w.vals.relativeHumidity2mMean
                   /\ wx'[s].failed = Append(r.failed, r.loc)
                   /\ IF r.loc < NumLocations
                      THEN wx'[s].pc = "fetch" /\ wx'[s].loc = r.loc + 1
                      ELSE wx'[s].pc = "returned"]_vars
    /\ [][\A s \in PredSlots :
            pred[s].pc = "write" /\ pred'[s].pc \notin {"write", "day"}
            => LET r == pred[s]
                   mine == WritesOfUnit(predLog'[r.run].writes, r.queue[r.idx].id)
               IN  /\ predictions \subseteq predictions'
                   /\ KeysOf(mine) \subseteq
                         {PredKey(r.target, DateColumn(AddDays(r.today, d - 1))) :
                             d \in 1..(r.day - 1)}
                   /\ \A w \in mine :
                         \E row \in PredRowsAt(predictions', w.key) :
                            ~scenario.overlap =>
                               /\ row.retailPrice = w.vals.retailPrice
                               /\ row.wholesalePrice = w.vals.wholesalePrice
                   /\ pred'[s].failed = Append(r.failed, r.queue[r.idx].id)
                   /\ IF r.idx < Len(r.queue)
                      THEN pred'[s].pc = "call" /\ pred'[s].idx = r.idx + 1
                      ELSE pred'[s].pc = "returned"]_vars
    /\ [][\A i \in 1..Len(wxLog) :
            \A w \in wxLog'[i].writes \ wxLog[i].writes :
               \E s \in WxSlots : wx[s].run = i /\ wx[s].loc = w.unit /\ wx[s].pc = "write"]_vars
    /\ [][\A i \in 1..Len(predLog) :
            \A w \in predLog'[i].writes \ predLog[i].writes :
               \E s \in PredSlots :
                  /\ pred[s].run = i /\ pred[s].pc = "write"
                  /\ pred[s].queue[pred[s].idx].id = w.unit]_vars

\* The upsert of the second day of the first location has just thrown: the
\* row of its first day is in the table and the run is at the second
\* location.
C27_Witness ==
    \E s \in WxSlots :
       /\ wx[s].pc = "fetch" /\ wx[s].loc = 2
       /\ wx[s].failed = <<1>>
       /\ wx[s].causes = <<"database">>
       /\ Cardinality(WritesOfUnit(wxLog[wx[s].run].writes, 1)) = 1
       /\ \A w \in WritesOfUnit(wxLog[wx[s].run].writes, 1) : RowsAt(forecasts, w.key) # {}

\* ---- POST /weather/refresh -------------------------------------------------------
\* C28: once the run started by POST /weather/refresh has returned, the
\* endpoint answers success, whatever number of locations failed and whatever
\* was written; it answers a failure only when the run itself threw, which
\* no failure of a location brings about.
C28_RefreshAnswersSuccess ==
    LET r == wx["refresh"]
        answer == RefreshWeatherData(r)
    IN  /\ r.pc = "returned" => answer.status = 200 /\ answer.success
        /\ answer.status = 500 => r.pc = "raised"
        /\ r.failed # <<>> => r.pc # "raised"

\* The refresh run has returned with every location failed and no row
\* written.
C28_Witness ==
    /\ wx["refresh"].pc = "returned"
    /\ Len(wx["refresh"].failed) = NumLocations
    /\ wxLog[wx["refresh"].run].writes = {}
    /\ RefreshWeatherData(wx["refresh"]).success

\* ---- A prediction run that fails before its loop ---------------------------------
\* C29: a prediction run either gets through its reads (the active fish
\* types, the weather average) and enters its loop over every active fish
\* type, or is raised by them; a raised run has made no call and written no
\* row, and the scheduler's callback catches it: the failure is logged and
\* the process goes on. Nothing after the reads raises the run, whatever
\* fish types fail.
C29_SetupFailureRejectsRun ==
    /\ [][\A s \in PredSlots :
            pred[s].pc = "setup" /\ pred'[s].pc # "setup"
            => \/ /\ pred'[s].pc = "raised"
                  /\ predictions' = predictions
               \/ /\ pred'[s].pc = "call"
                  /\ {pred'[s].queue[i].id : i \in 1..Len(pred'[s].queue)} = ActiveIds
               \/ /\ pred'[s].pc = "returned"
                  /\ ActiveIds = {}]_vars
    /\ [][\A s \in PredSlots :
            pred'[s].pc = "raised" => pred[s].pc \in {"setup", "raised"}]_vars
    /\ [](\A s \in PredSlots :
            pred[s].pc = "raised"
            => /\ pred[s].calls = <<>>
               /\ pred[s].failed = <<>>
               /\ predLog[pred[s].run].writes = {}
               /\ "rejected" \in JobOutcomes("prediction")
               /\ LET p == CallbackCatch(proc, "prediction")
                  IN  /\ p.alive /\ ~p.rejection
                      /\ p.logged = Log("error", "Scheduled price predictions failed"))

\* The second run of the job was raised by its reads, after a first run that
\* wrote rows: it has made no call and its log of writes is empty.
C29_Witness ==
    /\ Len(predLog) = 2
    /\ pred["cron"].pc = "raised"
    /\ pred["cron"].run = 2
    /\ pred["cron"].calls = <<>>
    /\ predLog[1].writes # {}
    /\ predLog[2].writes = {}

\* ---- The seed script's id remapping -----------------------------------------------
\* The entity type each foreign-key field refers to.
Referenced ==
    [fishTypeId |-> "fishTypes", harborId |-> "harbors", driverId |-> "drivers",
     userId |-> "users", orderId |-> "orders", truckId |-> "trucks",
     routeId |-> "deliveryRoutes", pickupHarborId |-> "harbors",
     assignedTruckId |-> "trucks", startHarborId |-> "harbors"]

\* The entity type whose id a field of a file's item holds: the file's own for
\* its primary key, the referenced one for a foreign key.
EntityOf(field, modelName) ==
    IF field = OldIdField[modelName] THEN modelName ELSE Referenced[field]

\* The integer a field of a transformed record holds.
Remapped(record, field, modelName) ==
    IF field = OldIdField[modelName] THEN record.id ELSE record[field]

\* C30: every id field of every transformed record holds the integer that
\* the table of the field's entity type gives for the source id; within a
\* table distinct source ids have distinct integers and an entry never
\* changes; and seeding a file makes entries in another entity type's table
\* only for the foreign keys that refer to that type.
C30_IdsRemappedPerEntityType ==
    /\ [](\A modelName \in DOMAIN seeded :
            \A i \in 1..Len(seeded[modelName].data) :
               \A field \in DOMAIN seeded[modelName].data[i] :
                  Remapped(seeded[modelName].records[i], field, modelName)
                     = idMappings[EntityOf(field, modelName)][seeded[modelName].data[i][field]])
    /\ [](\A m \in ModelNames :
            \A a, b \in SourceIds :
               a # b /\ idMappings[m][a] # 0 => idMappings[m][a] # idMappings[m][b])
    /\ [][\A m \in ModelNames :
            \A o \in SourceIds :
               idMappings'[m][o] # idMappings[m][o]
               => /\ idMappings[m][o] = 0
                  /\ LET modelName == SeedingOrder[seedAt']
                         data == seeded'[modelName].data
                     IN  \E i \in 1..Len(data) :
                            \E field \in DOMAIN data[i] :
                               EntityOf(field, modelName) = m /\ data[i][field] = o]_vars

=============================================================================
